---- MODULE Spec2Model ----
(***************************************************************************)
(* A model of the owockibot bounty-board SDK: the request client (blocking *)
(* and asynchronous), the error taxonomy, and the domain model layer that  *)
(* turns untyped JSON into typed records.                                  *)
(*                                                                         *)
(* JSON values and Python values are tagged records:                       *)
(*   [t |-> "null"], [t |-> "str", v |-> s], [t |-> "arr", v |-> <<..>>],  *)
(*   [t |-> "num", v |-> n, e |-> k], [t |-> "obj", v |-> [key |-> value]].*)
(* A computation that can raise returns [ok |-> TRUE, v |-> value] or      *)
(* [ok |-> FALSE, err |-> exception].                                      *)
(***************************************************************************)
EXTENDS Integers, Sequences, FiniteSets, TLC

(***************************************************************************)
(* Bounds of the model.                                                    *)
(***************************************************************************)
\* longest Retry-After header value, in characters
MaxHeaderLen == 2
\* longest JSON array returned for list_bounties
MaxListLen == 2
\* most calls issued from one client instance
MaxCalls == 2

(***************************************************************************)
(* Values.                                                                 *)
(***************************************************************************)
PyNone == [t |-> "null"]
Str(s) == [t |-> "str", v |-> s]
Num(n) == [t |-> "num", v |-> n, e |-> 0]
\* the number n * 1000
Kilo(n) == [t |-> "num", v |-> n, e |-> 3]
Arr(s) == [t |-> "arr", v |-> s]
Obj(f) == [t |-> "obj", v |-> f]
Bool(b) == [t |-> "bool", v |-> b]
\* a string given character by character
Chars(cs) == [t |-> "chars", v |-> cs]
EmptyDict == Obj([k \in {} |-> PyNone])

Ok(v) == [ok |-> TRUE, v |-> v]
Raise(e) == [ok |-> FALSE, err |-> e]

\* Python truthiness of a value: None, "", 0, [] and {} are falsy.
Truthy(x) ==
    CASE x.t = "null" -> FALSE
      [] x.t = "str" -> x.v # ""
      [] x.t = "chars" -> Len(x.v) > 0
      [] x.t = "num" -> x.v # 0
      [] x.t = "int" -> \E i \in 1..Len(x.d) : x.d[i] # 0
      [] x.t = "bool" -> x.v
      [] x.t = "arr" -> Len(x.v) > 0
      [] x.t = "obj" -> DOMAIN x.v # {}
      [] x.t = "Decimal" -> x.c # <<0>>
      [] OTHER -> TRUE

\* The first raising step of a sequence of evaluated steps (Python evaluates
\* the arguments of a call left to right and stops at the first exception).
AllOk(steps) == \A i \in 1..Len(steps) : steps[i].ok
FirstErr(steps) ==
    steps[CHOOSE i \in 1..Len(steps) :
            /\ ~steps[i].ok
            /\ \A j \in 1..(i - 1) : steps[j].ok]
Vals(steps) == [i \in 1..Len(steps) |-> steps[i].v]

(***************************************************************************)
(* Exceptions (exceptions.py) and the builtin ones the code lets escape.   *)
(***************************************************************************)
ExcParent ==
    [ OwockibotError      |-> "Exception",
      APIError            |-> "OwockibotError",
      NotFoundError       |-> "APIError",
      ValidationError     |-> "APIError",
      RateLimitError      |-> "APIError",
      ServerError         |-> "APIError",
      AuthenticationError |-> "APIError",
      PaymentError        |-> "OwockibotError",
      KeyError            |-> "LookupError",
      LookupError         |-> "Exception",
      ValueError          |-> "Exception",
      JSONDecodeError     |-> "ValueError",
      TypeError           |-> "Exception",
      AttributeError      |-> "Exception",
      RuntimeError        |-> "Exception",
      NotImplementedError |-> "RuntimeError",
      ArithmeticError     |-> "Exception",
      ZeroDivisionError   |-> "ArithmeticError",
      DivisionByZero      |-> "ZeroDivisionError",
      Exception           |-> "BaseException" ]

RECURSIVE IsSubclass(_, _)
IsSubclass(c, base) ==
    IF c = base THEN TRUE
    ELSE IF c \in DOMAIN ExcParent THEN IsSubclass(ExcParent[c], base)
    ELSE FALSE

\* OwockibotError.__init__ / APIError.__init__
APIError(message, status_code, response, cause) ==
    [exc |-> "APIError", message |-> message, response |-> response,
     status_code |-> status_code, cause |-> cause]

NotFoundError(message, response) ==
    [exc |-> "NotFoundError", message |-> message, response |-> response,
     status_code |-> 404, cause |-> "None"]

ValidationError(message, response) ==
    [exc |-> "ValidationError", message |-> message, response |-> response,
     status_code |-> 400, cause |-> "None"]

RateLimitError(message, retry_after, response) ==
    [exc |-> "RateLimitError", message |-> message, response |-> response,
     status_code |-> 429, retry_after |-> retry_after, cause |-> "None"]

ServerError(message, status_code, response) ==
    [exc |-> "ServerError", message |-> message, response |-> response,
     status_code |-> status_code, cause |-> "None"]

AuthenticationError(message, response) ==
    [exc |-> "AuthenticationError", message |-> message, response |-> response,
     status_code |-> 401, cause |-> "None"]

\* builtin exceptions raised by the interpreter on behalf of the code
Builtin(exc, what) == [exc |-> exc, what |-> what, cause |-> "None"]

(***************************************************************************)
(* Dictionary access as the model layer uses it.                           *)
(***************************************************************************)
\* data[key]
Subscript(data, key) ==
    IF data.t # "obj" THEN Raise(Builtin("TypeError", key))
    ELSE IF key \notin DOMAIN data.v THEN Raise(Builtin("KeyError", key))
    ELSE Ok(data.v[key])

\* data.get(key, default)
DictGet(data, key, default) ==
    IF data.t # "obj" THEN Raise(Builtin("AttributeError", "get"))
    ELSE IF key \notin DOMAIN data.v THEN Ok(default)
    ELSE Ok(data.v[key])

\* the keys of a dict, in some fixed order
RECURSIVE KeySeq(_)
KeySeq(keys) ==
    IF keys = {} THEN <<>>
    ELSE LET k == CHOOSE x \in keys : TRUE
         IN <<Str(k)>> \o KeySeq(keys \ {k})

\* iteration over a value: a list yields its elements, a dict its keys
Iterate(x) ==
    CASE x.t = "arr" -> Ok(x.v)
      [] x.t = "obj" -> Ok(KeySeq(DOMAIN x.v))
      [] OTHER -> Raise(Builtin("TypeError", "not iterable"))

\* [F(e) for e in xs]: the first element that raises aborts the whole list
ListComp(F(_), xs) ==
    IF ~xs.ok THEN xs
    ELSE LET steps == [i \in 1..Len(xs.v) |-> F(xs.v[i])]
         IN IF AllOk(steps) THEN Ok(Arr(Vals(steps))) ELSE FirstErr(steps)

(***************************************************************************)
(* Timestamp normalizer (models.py, _parse_timestamp).                     *)
(*                                                                         *)
(* A number is mantissa x 10^exponent ([v |-> m, e |-> k], m >= 0), which  *)
(* keeps epoch values of the order of 10^12 within the checker's integers. *)
(***************************************************************************)
\* a > b for two numbers a = a.v * 10^a.e and b = b.v * 10^b.e
SciGT(a, b) ==
    IF a.e >= b.e
    THEN LET d == a.e - b.e
         IN IF d > 9 THEN a.v > 0 ELSE a.v > b.v \div (10 ^ d)
    ELSE LET d == b.e - a.e
         IN IF d > 9 THEN FALSE
            ELSE LET D == 10 ^ d
                     ceil == (a.v \div D) + (IF a.v % D # 0 THEN 1 ELSE 0)
                 IN ~(b.v >= ceil)

\* the strings used as timestamps, split into the pieces str.replace and
\* datetime.fromisoformat look at
IsoTokens ==
    [ a |-> <<"2026-02-07T05:13:27", "Z">>,
      b |-> <<"2026-02-07T05:13:27", "+00:00">>,
      c |-> <<"2026-02-07T05:13:27">>,
      d |-> <<"yesterday">> ]
IsoZ == "a"
IsoOffset == "b"
IsoNaive == "c"
IsoBad == "d"

\* the instants (epoch milliseconds) of the date-time texts fromisoformat accepts
IsoInstant == [ x \in {"2026-02-07T05:13:27"} |-> [v |-> 1770441207, e |-> 3] ]

\* s.replace("Z", "+00:00"): every occurrence is replaced
replace_Z(tokens) ==
    [i \in 1..Len(tokens) |-> IF tokens[i] = "Z" THEN "+00:00" ELSE tokens[i]]

\* A datetime is [ms, plus, tz]: its wall-clock reading is the reading of the
\* instant ms (epoch milliseconds) on a UTC clock, moved by plus hours; tz is
\* "utc" for an aware value and "naive" for one without tzinfo.

\* datetime.fromisoformat
fromisoformat(tokens) ==
    IF Len(tokens) >= 1 /\ tokens[1] \in DOMAIN IsoInstant
       /\ (Len(tokens) = 1 \/ (Len(tokens) = 2 /\ tokens[2] = "+00:00"))
    THEN Ok([t |-> "datetime", ms |-> IsoInstant[tokens[1]], plus |-> 0,
             tz |-> IF Len(tokens) = 1 THEN "naive" ELSE "utc"])
    ELSE Raise(Builtin("ValueError", "Invalid isoformat string"))

\* the UTC offset, in hours, of the local time zone of the host: the zone
\* datetime.fromtimestamp converts to when it is given no tz
VARIABLE localtz
LocalZones == {0, 0 - 5}

\* datetime.fromtimestamp, given the instant in milliseconds, on a host whose
\* local zone is z: the result is naive local time, and the year must stay
\* within 9999, whose last millisecond is 253402300799999
MaxEpochMillis == [v |-> 253402300, e |-> 6]
fromtimestamp_in(ms, z) ==
    IF SciGT(ms, MaxEpochMillis)
    THEN Raise(Builtin("ValueError", "year is out of range"))
    ELSE Ok([t |-> "datetime", ms |-> ms, plus |-> z, tz |-> "naive"])

fromtimestamp_ms(ms) == fromtimestamp_in(ms, localtz)

\* 1e12
MillisThreshold == [v |-> 1, e |-> 12]
\* isinstance(x, (int, float)): bool is a subclass of int
is_number(x) == x.t \in {"num", "bool"}
\* the number x, as mantissa and exponent (True is 1, False is 0)
number_of(x) ==
    IF x.t = "bool" THEN [v |-> IF x.v THEN 1 ELSE 0, e |-> 0]
    ELSE [v |-> x.v, e |-> x.e]

\* _parse_timestamp on a host whose local zone is z
parse_timestamp_in(ts, z) ==
    IF is_number(ts)
    THEN IF SciGT(number_of(ts), MillisThreshold)
         THEN fromtimestamp_in(number_of(ts), z)
         ELSE fromtimestamp_in([v |-> number_of(ts).v, e |-> number_of(ts).e + 3], z)
    ELSE IF ts.t = "str"
    THEN IF ts.v \in DOMAIN IsoTokens
         THEN fromisoformat(replace_Z(IsoTokens[ts.v]))
         ELSE fromisoformat(<<ts.v>>)
    ELSE Raise(Builtin("AttributeError", "replace"))

parse_timestamp(ts) == parse_timestamp_in(ts, localtz)

(***************************************************************************)
(* Domain model layer (models.py): one from_dict per entity.               *)
(***************************************************************************)
Bind(r, F(_)) == IF r.ok THEN F(r.v) ELSE r

\* F(data[key]) if data.get(key) else None
IfPresent(data, key, F(_)) ==
    LET g == DictGet(data, key, PyNone)
    IN IF ~g.ok THEN g
       ELSE IF Truthy(g.v) THEN Bind(Subscript(data, key), F)
       ELSE Ok(PyNone)

BountyStatusValues ==
    {"open", "claimed", "submitted", "completed", "cancelled", "payment_failed"}

\* BountyStatus(value)
BountyStatus(x) ==
    IF x.t = "str" /\ x.v \in BountyStatusValues
    THEN Ok([t |-> "BountyStatus", v |-> x.v])
    ELSE Raise(Builtin("ValueError", "not a valid BountyStatus"))

\* Submission(...): the dataclass constructor, once every argument is evaluated
Submission_init(steps) ==
    IF AllOk(steps)
    THEN Ok([t |-> "Submission", id |-> steps[1].v, content |-> steps[2].v,
                submitted_at |-> steps[3].v, proof |-> steps[4].v])
    ELSE FirstErr(steps)

Submission_from_dict(data) ==
    Submission_init(
        << Subscript(data, "id"),
            Subscript(data, "content"),
            Bind(Subscript(data, "submittedAt"), parse_timestamp),
            DictGet(data, "proof", PyNone) >>)

\* Rejection(...): the dataclass constructor, once every argument is evaluated
Rejection_init(steps) ==
    IF AllOk(steps)
    THEN Ok([t |-> "Rejection", reason |-> steps[2].v, rejected_at |-> steps[3].v,
                previous_claimant |-> steps[4].v, previous_submissions |-> steps[1].v])
    ELSE FirstErr(steps)

Rejection_from_dict(data) ==
    Rejection_init(
        << ListComp(Submission_from_dict,
                     Bind(DictGet(data, "previousSubmissions", Arr(<<>>)), Iterate)),
            Subscript(data, "reason"),
            Bind(Subscript(data, "rejectedAt"), parse_timestamp),
            DictGet(data, "previousClaimant", PyNone) >>)

\* PendingPayment(...): the dataclass constructor, once every argument is evaluated
PendingPayment_init(steps) ==
    IF AllOk(steps)
    THEN Ok([t |-> "PendingPayment", fee |-> steps[1].v, chain |-> steps[2].v,
                token |-> steps[3].v, net_reward |-> steps[4].v,
                gross_reward |-> steps[5].v, recipient |-> steps[6].v])
    ELSE FirstErr(steps)

PendingPayment_from_dict(data) ==
    PendingPayment_init(
        << Subscript(data, "fee"),
            Subscript(data, "chain"),
            Subscript(data, "token"),
            Subscript(data, "netReward"),
            Subscript(data, "grossReward"),
            Subscript(data, "recipient") >>)

\* datetime.fromisoformat(x.replace("Z", "+00:00")): only a string has replace
Payment_processed_at(x) ==
    IF x.t = "str"
    THEN IF x.v \in DOMAIN IsoTokens
         THEN fromisoformat(replace_Z(IsoTokens[x.v]))
         ELSE fromisoformat(<<x.v>>)
    ELSE Raise(Builtin("AttributeError", "replace"))

\* Payment(...): the dataclass constructor, once every argument is evaluated
Payment_init(steps) ==
    IF AllOk(steps)
    THEN Ok([t |-> "Payment", fee |-> steps[1].v, chain |-> steps[2].v,
                token |-> steps[3].v, net_reward |-> steps[4].v,
                gross_reward |-> steps[5].v, tx_hash |-> steps[6].v,
                processed_at |-> steps[7].v, processed_by |-> steps[8].v,
                fee_percent |-> steps[9].v, fee_formatted |-> steps[10].v,
                net_reward_formatted |-> steps[11].v])
    ELSE FirstErr(steps)

Payment_from_dict(data) ==
    Payment_init(
        << Subscript(data, "fee"),
            Subscript(data, "chain"),
            Subscript(data, "token"),
            Subscript(data, "netReward"),
            Subscript(data, "grossReward"),
            Subscript(data, "txHash"),
            Bind(Subscript(data, "processedAt"), Payment_processed_at),
            Subscript(data, "processedBy"),
            Subscript(data, "feePercent"),
            Subscript(data, "feeFormatted"),
            Subscript(data, "netRewardFormatted") >>)

\* the deadline block of Bounty.from_dict
Bounty_deadline(data) ==
    LET deadline_raw == DictGet(data, "deadline", PyNone)
    IN IF ~deadline_raw.ok THEN deadline_raw
       ELSE IF Truthy(deadline_raw.v)
       THEN IF is_number(deadline_raw.v)
            THEN fromtimestamp_ms(number_of(deadline_raw.v))
            ELSE deadline_raw
       ELSE Ok(PyNone)

\* Bounty(...): the dataclass constructor, once every argument is evaluated
Bounty_init(steps) ==
    IF AllOk(steps)
    THEN Ok([t |-> "Bounty", deadline |-> steps[1].v, id |-> steps[2].v,
                uuid |-> steps[3].v, title |-> steps[4].v,
                description |-> steps[5].v, reward |-> steps[6].v,
                reward_formatted |-> steps[7].v, status |-> steps[8].v,
                creator |-> steps[9].v, tags |-> steps[10].v,
                requirements |-> steps[11].v, submissions |-> steps[12].v,
                created_at |-> steps[13].v, updated_at |-> steps[14].v,
                claimed_by |-> steps[15].v, claimed_at |-> steps[16].v,
                approved_at |-> steps[17].v, completed_at |-> steps[18].v,
                payment_error |-> steps[19].v, pending_payment |-> steps[20].v,
                payment |-> steps[21].v, rejections |-> steps[22].v])
    ELSE FirstErr(steps)

Bounty_from_dict(data) ==
    Bounty_init(
        << Bounty_deadline(data),
            Subscript(data, "id"),
            Subscript(data, "uuid"),
            Subscript(data, "title"),
            Subscript(data, "description"),
            Subscript(data, "reward"),
            Subscript(data, "rewardFormatted"),
            Bind(Subscript(data, "status"), BountyStatus),
            Subscript(data, "creator"),
            DictGet(data, "tags", Arr(<<>>)),
            DictGet(data, "requirements", Arr(<<>>)),
            ListComp(Submission_from_dict,
                     Bind(DictGet(data, "submissions", Arr(<<>>)), Iterate)),
            Bind(Subscript(data, "createdAt"), parse_timestamp),
            Bind(Subscript(data, "updatedAt"), parse_timestamp),
            DictGet(data, "claimedBy", PyNone),
            IfPresent(data, "claimedAt", parse_timestamp),
            IfPresent(data, "approvedAt", parse_timestamp),
            IfPresent(data, "completedAt", parse_timestamp),
            DictGet(data, "paymentError", PyNone),
            IfPresent(data, "pendingPayment", PendingPayment_from_dict),
            IfPresent(data, "payment", Payment_from_dict),
            ListComp(Rejection_from_dict,
                     Bind(DictGet(data, "rejections", Arr(<<>>)), Iterate)) >>)

\* Stats(...): the dataclass constructor, once every argument is evaluated
Stats_init(steps) ==
    IF AllOk(steps)
    THEN Ok([t |-> "Stats", total_bounties |-> steps[1].v,
                open_bounties |-> steps[2].v, completed_bounties |-> steps[3].v,
                total_rewards_usdc |-> steps[4].v, total_agents |-> steps[5].v,
                db_connected |-> steps[6].v])
    ELSE FirstErr(steps)

Stats_from_dict(data) ==
    Stats_init(
        << Subscript(data, "totalBounties"),
            Subscript(data, "openBounties"),
            Subscript(data, "completedBounties"),
            Subscript(data, "totalRewardsUSDC"),
            Subscript(data, "totalAgents"),
            Subscript(data, "dbConnected") >>)

\* TokenConfig(...): the dataclass constructor, once every argument is evaluated
TokenConfig_init(steps) ==
    IF AllOk(steps)
    THEN Ok([t |-> "TokenConfig", network |-> steps[1].v, token |-> steps[2].v,
                address |-> steps[3].v, min_amount |-> steps[4].v])
    ELSE FirstErr(steps)

TokenConfig_from_dict(data) ==
    TokenConfig_init(
        << Subscript(data, "network"),
            Subscript(data, "token"),
            Subscript(data, "address"),
            Subscript(data, "minAmount") >>)

\* X402Config(...): the dataclass constructor, once every argument is evaluated
X402Config_init(steps) ==
    IF AllOk(steps)
    THEN Ok([t |-> "X402Config", version |-> steps[1].v, network |-> steps[2].v,
                chain_id |-> steps[3].v, accepts |-> steps[4].v,
                facilitator |-> steps[5].v, treasury |-> steps[6].v])
    ELSE FirstErr(steps)

X402Config_from_dict(data) ==
    X402Config_init(
        << Subscript(data, "version"),
            Subscript(data, "network"),
            Subscript(data, "chainId"),
            ListComp(TokenConfig_from_dict,
                     Bind(Subscript(data, "accepts"), Iterate)),
            Subscript(data, "facilitator"),
            Subscript(data, "treasury") >>)

(***************************************************************************)
(* Decimal arithmetic as the *_usdc accessors use it (models.py).          *)
(*                                                                         *)
(* A Decimal is [s, c, e]: sign s, coefficient c as its decimal digits and *)
(* exponent e, kept in reduced form (no trailing zero in c, zero is 0E0),  *)
(* so that two Decimals are numerically equal exactly when they are the    *)
(* same record.                                                            *)
(***************************************************************************)
\* an int beyond the checker's integers, given by its decimal digits
BigInt(ds) == [t |-> "int", d |-> ds]

\* the decimal digits of a natural number
RECURSIVE Digits(_)
Digits(n) == IF n < 10 THEN <<n>> ELSE Digits(n \div 10) \o <<n % 10>>

Zeros(k) == [i \in 1..k |-> 0]
AllZero(ds) == \A i \in 1..Len(ds) : ds[i] = 0

RECURSIVE TrailingZeros(_)
TrailingZeros(ds) ==
    IF Len(ds) > 1 /\ ds[Len(ds)] = 0
    THEN 1 + TrailingZeros(SubSeq(ds, 1, Len(ds) - 1))
    ELSE 0

\* the Decimal sign * ds * 10^e, reduced
Dec(sign, ds, e) ==
    IF AllZero(ds) THEN [t |-> "Decimal", s |-> 1, c |-> <<0>>, e |-> 0]
    ELSE [t |-> "Decimal", s |-> sign,
          c |-> SubSeq(ds, 1, Len(ds) - TrailingZeros(ds)),
          e |-> e + TrailingZeros(ds)]

\* Decimal(x) for an int (exact, whatever its size) or a float of integral value
Decimal_of(x) ==
    CASE x.t = "int" -> Ok(Dec(IF "s" \in DOMAIN x THEN x.s ELSE 1, x.d, 0))
      [] x.t = "num" /\ x.e >= 0 ->
            Ok(Dec(IF x.v < 0 THEN 0 - 1 ELSE 1,
                   Digits(IF x.v < 0 THEN 0 - x.v ELSE x.v), x.e))
      [] x.t = "bool" -> Ok(Dec(1, <<IF x.v THEN 1 ELSE 0>>, 0))
      [] x.t \in {"null", "arr", "obj"} ->
            Raise(Builtin("TypeError", "conversion to Decimal"))

\* the digits of ds + 1
RECURSIVE Increment(_)
Increment(ds) ==
    IF Len(ds) = 0 THEN <<1>>
    ELSE IF ds[Len(ds)] < 9 THEN [ds EXCEPT ![Len(ds)] = @ + 1]
    ELSE Increment(SubSeq(ds, 1, Len(ds) - 1)) \o <<0>>

\* the precision of the default decimal context, in significant digits
DecimalPrec == 28

\* the result of an operation, rounded to the context (ROUND_HALF_EVEN)
DecimalRound(sign, ds, e) ==
    IF Len(ds) <= DecimalPrec THEN Dec(sign, ds, e)
    ELSE LET keep == SubSeq(ds, 1, DecimalPrec)
             rest == SubSeq(ds, DecimalPrec + 1, Len(ds))
             more == \E i \in 2..Len(rest) : rest[i] # 0
             up == \/ rest[1] > 5
                   \/ rest[1] = 5 /\ (more \/ keep[DecimalPrec] % 2 = 1)
         IN Dec(sign, IF up THEN Increment(keep) ELSE keep, e + Len(rest))

\* a / b for a divisor that is a power of ten
Decimal_truediv(a, b) ==
    CASE b.c = <<1>> -> Ok(DecimalRound(a.s * b.s, a.c, a.e - b.e))
      [] b.c = <<0>> -> Raise(Builtin("DivisionByZero", "decimal"))

\* 1_000_000
Million == 1000000

\* Decimal(x) / Decimal(1_000_000)
usdc(x) ==
    IF Decimal_of(x).ok
    THEN Decimal_truediv(Decimal_of(x).v, Decimal_of(Num(Million)).v)
    ELSE Decimal_of(x)

\* gross_reward_usdc computed from net_reward
PendingPayment_gross_reward_usdc_from_net(p) == usdc(p.net_reward)

PendingPayment_fee_usdc(p) == usdc(p.fee)
PendingPayment_net_reward_usdc(p) == usdc(p.net_reward)
PendingPayment_gross_reward_usdc(p) == usdc(p.gross_reward)

Payment_fee_usdc(p) == usdc(p.fee)
Payment_net_reward_usdc(p) == usdc(p.net_reward)
Payment_gross_reward_usdc(p) == usdc(p.gross_reward)

Bounty_reward_usdc(b) == usdc(b.reward)

(***************************************************************************)
(* The unit conversions (utils.py).                                        *)
(***************************************************************************)
\* an int given by its sign and decimal digits: one of up to nine digits is a
\* number, a negative one beyond that carries its sign
RECURSIVE DigitsNat(_)
DigitsNat(ds) ==
    IF ds = <<>> THEN 0
    ELSE 10 * DigitsNat(SubSeq(ds, 1, Len(ds) - 1)) + ds[Len(ds)]
SignedInt(sign, ds) ==
    IF Len(ds) <= 9 THEN Num(sign * DigitsNat(ds))
    ELSE IF sign = 1 THEN BigInt(ds)
    ELSE [t |-> "int", d |-> ds, s |-> sign]

\* a * b for a factor b that is a power of ten, rounded to the context
Decimal_mul(a, b) ==
    IF a.c = <<0>> THEN a ELSE DecimalRound(a.s * b.s, a.c, a.e + b.e)

\* int(d): the integral part, the fraction dropped (truncation toward zero)
Decimal_int(d) ==
    IF d.e >= 0 THEN SignedInt(d.s, d.c \o Zeros(d.e))
    ELSE IF Len(d.c) + d.e <= 0 THEN Num(0)
    ELSE SignedInt(d.s, SubSeq(d.c, 1, Len(d.c) + d.e))

\* d rounded to the nearest integer, halves away from zero
Decimal_round_int(d) ==
    IF d.e >= 0 \/ Len(d.c) + d.e < 0 THEN Decimal_int(d)
    ELSE IF d.c[Len(d.c) + d.e + 1] >= 5
    THEN SignedInt(d.s, Increment(SubSeq(d.c, 1, Len(d.c) + d.e)))
    ELSE Decimal_int(d)

\* usdc_to_micro rounding the product instead of truncating it
usdc_to_micro_rounded(x) ==
    Ok(Decimal_round_int(Decimal_mul(x, Decimal_of(Num(Million)).v)))

\* usdc_to_micro(usdc): int(usdc * Decimal(1_000_000))
usdc_to_micro(x) ==
    Ok(Decimal_int(Decimal_mul(x, Decimal_of(Num(Million)).v)))

\* micro_to_usdc(micro): Decimal(micro) / Decimal(1_000_000)
micro_to_usdc(micro) == usdc(micro)

(***************************************************************************)
(* The derived rates of Stats (models.py).  A float is kept as the         *)
(* fraction n * 10^e / d it is the nearest float to.                       *)
(***************************************************************************)
Float(n, e, d) == [t |-> "float", n |-> n, e |-> e, d |-> d]

\* x == 0
eq_zero(x) == is_number(x) /\ number_of(x).v = 0

\* a / b
truediv(a, b) ==
    IF ~is_number(a) \/ ~is_number(b)
    THEN Raise(Builtin("TypeError", "unsupported operand type(s) for /"))
    ELSE IF number_of(b).v = 0
    THEN Raise(Builtin("ZeroDivisionError", "division by zero"))
    ELSE Ok(Float(number_of(a).v, number_of(a).e - number_of(b).e, number_of(b).v))

\* x * k for a float x and an int k
float_mul(x, k) == Float(x.n * k, x.e, x.d)

\* completion_rate with the guard on completed_bounties instead of total_bounties
Stats_completion_rate_guard_completed(s) ==
    IF eq_zero(s.completed_bounties) THEN Ok(Float(0, 0, 1))
    ELSE IF truediv(s.completed_bounties, s.total_bounties).ok
    THEN Ok(float_mul(truediv(s.completed_bounties, s.total_bounties).v, 100))
    ELSE truediv(s.completed_bounties, s.total_bounties)

Stats_completion_rate(s) ==
    IF eq_zero(s.total_bounties) THEN Ok(Float(0, 0, 1))
    ELSE IF truediv(s.completed_bounties, s.total_bounties).ok
    THEN Ok(float_mul(truediv(s.completed_bounties, s.total_bounties).v, 100))
    ELSE truediv(s.completed_bounties, s.total_bounties)

Stats_average_reward_usdc(s) ==
    IF eq_zero(s.completed_bounties) THEN Ok(Float(0, 0, 1))
    ELSE truediv(s.total_rewards_usdc, s.completed_bounties)

(***************************************************************************)
(* BountyFilter (filters.py): the builder and apply.  The text the filter  *)
(* compares (tags, creator, claimant, title, description, query) is        *)
(* Chars(cs), a string given by its characters, so that lower() and the    *)
(* substring test are computed.                                            *)
(***************************************************************************)
\* str.lower(), character by character
LowerOf == [c \in {"A", "B"} |-> IF c = "A" THEN "a" ELSE "b"]
str_lower(s) ==
    Chars([i \in 1..Len(s.v) |->
            IF s.v[i] \in DOMAIN LowerOf THEN LowerOf[s.v[i]] ELSE s.v[i]])

\* q in s
str_contains(s, q) ==
    \E i \in 0..(Len(s.v) - Len(q.v)) : SubSeq(s.v, i + 1, i + Len(q.v)) = q.v

\* the coefficient of d written at the exponent m <= d.e, n digits wide
Aligned(d, m, n) == Zeros(n - Len(d.c) - (d.e - m)) \o d.c \o Zeros(d.e - m)

\* x <= y for digit sequences of one width
DigitsLE(x, y) ==
    \/ x = y
    \/ \E i \in 1..Len(x) : x[i] < y[i] /\ \A j \in 1..(i - 1) : x[j] = y[j]

\* |a| <= |b|, both written at the exponent m and n digits wide
MagnitudeLE(a, b, m, n) == DigitsLE(Aligned(a, m, n), Aligned(b, m, n))

Smaller(i, j) == IF i < j THEN i ELSE j
Larger(i, j) == IF i < j THEN j ELSE i

\* the width both coefficients fit at the exponent m
Width(a, b, m) == Larger(Len(a.c) + a.e - m, Len(b.c) + b.e - m)

\* a <= b for Decimals (zero has sign 1)
Decimal_le(a, b) ==
    CASE a.s = 1 /\ b.s = 1 ->
            MagnitudeLE(a, b, Smaller(a.e, b.e), Width(a, b, Smaller(a.e, b.e)))
      [] a.s # 1 /\ b.s # 1 ->
            MagnitudeLE(b, a, Smaller(a.e, b.e), Width(a, b, Smaller(a.e, b.e)))
      [] OTHER -> a.s # 1

\* a >= b
Decimal_ge(a, b) == Decimal_le(b, a)

\* BountyFilter(custom_filter=...): the dataclass defaults; id is the identity
\* of the object, the one builder the caller holds
BountyFilter_init(custom_filter) ==
    [t |-> "BountyFilter",
     id |-> 1,
     statuses |-> Arr(<<>>),
     tags |-> Arr(<<>>),
     min_reward |-> PyNone,
     max_reward |-> PyNone,
     creator |-> PyNone,
     claimed_by |-> PyNone,
     search_query |-> PyNone,
     custom_filter |-> custom_filter]

\* with_status returning a new builder that holds the statuses given alone
BountyFilter_with_status_replace(self, statuses) ==
    [self EXCEPT !.id = 2, !.statuses = Arr(statuses)]

\* the builder methods change self in place and return it: the value is self
\* after the call
BountyFilter_with_status(self, statuses) ==
    [self EXCEPT !.statuses = Arr(@.v \o statuses)]

BountyFilter_with_tags(self, tags) ==
    [self EXCEPT !.tags = Arr(@.v \o tags)]

\* the closure with_any_tags builds over tag_set
any_tag_filter(tag_set) ==
    [t |-> "function", name |-> "any_tag_filter", tag_set |-> tag_set]

\* with_any_tags leaving a custom filter that is already there
BountyFilter_with_any_tags_keep_custom(self, tags) ==
    IF self.custom_filter # PyNone THEN self
    ELSE [self EXCEPT !.custom_filter =
            any_tag_filter({str_lower(tags[i]) : i \in 1..Len(tags)})]

BountyFilter_with_any_tags(self, tags) ==
    [self EXCEPT !.custom_filter =
        any_tag_filter({str_lower(tags[i]) : i \in 1..Len(tags)})]

BountyFilter_with_min_reward(self, amount) ==
    [self EXCEPT !.min_reward = amount]

BountyFilter_with_max_reward(self, amount) ==
    [self EXCEPT !.max_reward = amount]

BountyFilter_with_reward_range(self, min_amount, max_amount) ==
    [self EXCEPT !.min_reward = min_amount, !.max_reward = max_amount]

BountyFilter_with_creator(self, creator) ==
    [self EXCEPT !.creator = str_lower(creator)]

BountyFilter_with_claimed_by(self, claimant) ==
    [self EXCEPT !.claimed_by = str_lower(claimant)]

BountyFilter_search(self, query) ==
    [self EXCEPT !.search_query = str_lower(query)]

\* s.value of a BountyStatus, character by character
BountyStatus_value(s) ==
    CASE s.v = "open" -> Chars(<<"o", "p", "e", "n">>)
      [] s.v = "claimed" -> Chars(<<"c", "l", "a", "i", "m", "e", "d">>)
      [] s.v = "submitted" -> Chars(<<"s", "u", "b", "m", "i", "t", "t", "e", "d">>)
      [] s.v = "completed" -> Chars(<<"c", "o", "m", "p", "l", "e", "t", "e", "d">>)
      [] s.v = "cancelled" -> Chars(<<"c", "a", "n", "c", "e", "l", "l", "e", "d">>)
      [] s.v = "payment_failed" ->
            Chars(<<"p", "a", "y", "m", "e", "n", "t", "_", "f", "a", "i", "l", "e", "d">>)

\* sep.join(parts)
RECURSIVE str_join(_, _)
str_join(sep, parts) ==
    IF Len(parts) = 0 THEN Chars(<<>>)
    ELSE IF Len(parts) = 1 THEN parts[1]
    ELSE Chars(parts[1].v \o sep \o str_join(sep, Tail(parts)).v)

\* params[key] = val when the condition holds
SetIf(params, cond, key, val) ==
    IF cond
    THEN Obj([k \in DOMAIN params.v \cup {key} |-> IF k = key THEN val ELSE params.v[k]])
    ELSE params

\* int(reward * 1_000_000)
reward_micro(reward) == Decimal_int(Decimal_mul(reward, Decimal_of(Num(Million)).v))

\* BountyFilter.to_query_params
BountyFilter_to_query_params(self) ==
    LET p1 == SetIf(EmptyDict, Truthy(self.statuses), "status",
                    str_join(<<",">>, [i \in 1..Len(self.statuses.v) |->
                                            BountyStatus_value(self.statuses.v[i])]))
        p2 == SetIf(p1, Truthy(self.tags), "tags", str_join(<<",">>, self.tags.v))
        p3 == SetIf(p2, Truthy(self.min_reward), "minReward",
                    IF Truthy(self.min_reward) THEN reward_micro(self.min_reward)
                    ELSE PyNone)
        p4 == SetIf(p3, Truthy(self.max_reward), "maxReward",
                    IF Truthy(self.max_reward) THEN reward_micro(self.max_reward)
                    ELSE PyNone)
        p5 == SetIf(p4, Truthy(self.creator), "creator", self.creator)
    IN  SetIf(p5, Truthy(self.search_query), "q", self.search_query)

\* a predicate of the caller's: lambda b: b.payment.fee > 0
fee_paid == [t |-> "function", name |-> "fee_paid"]

\* self.custom_filter(b)
call_custom_filter(f, b) ==
    CASE f.name = "any_tag_filter" ->
            Ok(Bool(f.tag_set \cap
                    {str_lower(b.tags.v[i]) : i \in 1..Len(b.tags.v)} # {}))
      [] f.name = "fee_paid" ->
            IF b.payment = PyNone
            THEN Raise(Builtin("AttributeError",
                               "'NoneType' object has no attribute 'fee'"))
            ELSE Ok(Bool(number_of(b.payment.fee).v > 0))

\* the elements of xs whose flag is true
RECURSIVE Kept(_, _)
Kept(xs, flags) ==
    IF xs = <<>> THEN <<>>
    ELSE (IF Truthy(Head(flags).v) THEN <<Head(xs)>> ELSE <<>>)
            \o Kept(Tail(xs), Tail(flags))

\* [b for b in result if b.status in self.statuses]
apply_statuses(self, result) ==
    IF Truthy(self.statuses)
    THEN SelectSeq(result, LAMBDA b :
            \E i \in 1..Len(self.statuses.v) : b.status = self.statuses.v[i])
    ELSE result

\* the tag stage keeping a bounty that has any of the tags
apply_tags_any(self, result) ==
    IF Truthy(self.tags)
    THEN SelectSeq(result, LAMBDA b :
            \E i \in 1..Len(self.tags.v) :
                \E j \in 1..Len(b.tags.v) :
                    str_lower(self.tags.v[i]) = str_lower(b.tags.v[j]))
    ELSE result

\* [b for b in result if all(t.lower() in (tag.lower() for tag in b.tags) ...)]
apply_tags(self, result) ==
    IF Truthy(self.tags)
    THEN SelectSeq(result, LAMBDA b :
            \A i \in 1..Len(self.tags.v) :
                \E j \in 1..Len(b.tags.v) :
                    str_lower(self.tags.v[i]) = str_lower(b.tags.v[j]))
    ELSE result

\* [b for b in result if b.reward_usdc >= self.min_reward]
apply_min_reward(self, result) ==
    IF self.min_reward # PyNone
    THEN SelectSeq(result, LAMBDA b :
            Decimal_ge(Bounty_reward_usdc(b).v, self.min_reward))
    ELSE result

\* [b for b in result if b.reward_usdc <= self.max_reward], entered
\* whenever max_reward is truthy
apply_max_reward_if_truthy(self, result) ==
    IF Truthy(self.max_reward)
    THEN SelectSeq(result, LAMBDA b :
            Decimal_le(Bounty_reward_usdc(b).v, self.max_reward))
    ELSE result

\* [b for b in result if b.reward_usdc <= self.max_reward]
apply_max_reward(self, result) ==
    IF self.max_reward # PyNone
    THEN SelectSeq(result, LAMBDA b :
            Decimal_le(Bounty_reward_usdc(b).v, self.max_reward))
    ELSE result

\* the creator stage entered whenever creator is not None
apply_creator_if_not_none(self, result) ==
    IF self.creator # PyNone
    THEN SelectSeq(result, LAMBDA b : str_lower(b.creator) = self.creator)
    ELSE result

\* [b for b in result if b.creator.lower() == self.creator]
apply_creator(self, result) ==
    IF Truthy(self.creator)
    THEN SelectSeq(result, LAMBDA b : str_lower(b.creator) = self.creator)
    ELSE result

\* [b for b in result if b.claimed_by and b.claimed_by.lower() == self.claimed_by]
apply_claimed_by(self, result) ==
    IF Truthy(self.claimed_by)
    THEN SelectSeq(result, LAMBDA b :
            Truthy(b.claimed_by) /\ str_lower(b.claimed_by) = self.claimed_by)
    ELSE result

\* [b for b in result if self.search_query in b.title.lower() or ...]
apply_search_query(self, result) ==
    IF Truthy(self.search_query)
    THEN SelectSeq(result, LAMBDA b :
            \/ str_contains(str_lower(b.title), self.search_query)
            \/ str_contains(str_lower(b.description), self.search_query))
    ELSE result

\* the list the custom stage leaves, given what the predicate said of each
custom_kept(result, said) ==
    IF AllOk(said) THEN Ok(Arr(Kept(result, said))) ELSE FirstErr(said)

\* [b for b in result if self.custom_filter(b)]
apply_custom_filter(self, result) ==
    IF Truthy(self.custom_filter)
    THEN custom_kept(result,
            [i \in 1..Len(result) |-> call_custom_filter(self.custom_filter, result[i])])
    ELSE Ok(Arr(result))

\* BountyFilter.apply(bounties)
BountyFilter_apply(self, bounties) ==
    apply_custom_filter(self,
      apply_search_query(self,
        apply_claimed_by(self,
          apply_creator(self,
            apply_max_reward(self,
              apply_min_reward(self,
                apply_tags(self,
                  apply_statuses(self, bounties.v))))))))

(***************************************************************************)
(* The sort functions (filters.py).  A sort key is a number v * 10^e: the  *)
(* reward, or the epoch milliseconds of a datetime.                        *)
(***************************************************************************)
\* datetime.min and datetime.max, both naive
datetime_min == [t |-> "datetime", ms |-> [v |-> 0 - 62135597, e |-> 6],
                 plus |-> 0, tz |-> "naive"]
datetime_max == [t |-> "datetime", ms |-> [v |-> 253402301, e |-> 6],
                 plus |-> 0, tz |-> "naive"]

\* two keys compare equal
SameKey(a, b) == ~SciGT(a, b) /\ ~SciGT(b, a)

\* the elements that sorted() puts before the i-th: those of a smaller key
\* (a greater one when reversed) and, the sort being stable in either
\* direction, the earlier ones of an equal key
Before(keys, reverse, i) ==
    {j \in 1..Len(keys) :
        \/ IF reverse THEN SciGT(keys[j], keys[i]) ELSE SciGT(keys[i], keys[j])
        \/ j < i /\ SameKey(keys[j], keys[i])}

\* sorted(xs, key=..., reverse=reverse), given the key of each element: a new
\* list
sorted(xs, keys, reverse) ==
    [p \in 1..Len(xs) |->
        xs[CHOOSE i \in 1..Len(xs) : Cardinality(Before(keys, reverse, i)) = p - 1]]

\* a naive and an aware datetime do not compare
Comparable(ds) ==
    \A i, j \in 1..Len(ds) : ds[i].tz = "naive" <=> ds[j].tz = "naive"

\* sort_by_reward(bounties, descending)
sort_by_reward(bounties, descending) ==
    Ok(Arr(sorted(bounties.v,
                  [i \in 1..Len(bounties.v) |-> number_of(bounties.v[i].reward)],
                  descending)))

\* sort_by_created(bounties, descending)
sort_by_created(bounties, descending) ==
    IF Comparable([i \in 1..Len(bounties.v) |-> bounties.v[i].created_at])
    THEN Ok(Arr(sorted(bounties.v,
                       [i \in 1..Len(bounties.v) |-> bounties.v[i].created_at.ms],
                       descending)))
    ELSE Raise(Builtin("TypeError",
                       "can't compare offset-naive and offset-aware datetimes"))

\* deadline_key(b), a closure over descending
deadline_key(b, descending) ==
    IF b.deadline = PyNone
    THEN (IF descending THEN datetime_max ELSE datetime_min)
    ELSE IF b.deadline.t # "datetime" THEN datetime_min
    ELSE b.deadline

\* sort_by_deadline(bounties, descending)
sort_by_deadline(bounties, descending) ==
    IF Comparable([i \in 1..Len(bounties.v) |->
                        deadline_key(bounties.v[i], descending)])
    THEN Ok(Arr(sorted(bounties.v,
                       [i \in 1..Len(bounties.v) |->
                            deadline_key(bounties.v[i], descending).ms],
                       descending)))
    ELSE Raise(Builtin("TypeError",
                       "can't compare offset-naive and offset-aware datetimes"))

(***************************************************************************)
(* HTTP exchange as the client sees it.                                    *)
(***************************************************************************)
DEFAULT_BASE_URL == "https://bounty.owockibot.xyz"
DEFAULT_TIMEOUT == "30.0"

\* httpx's exception hierarchy, as far as the except clauses depend on it
HttpxParent ==
    [ ConnectTimeout   |-> "TimeoutException",
      ReadTimeout      |-> "TimeoutException",
      TimeoutException |-> "TransportError",
      ConnectError     |-> "NetworkError",
      ReadError        |-> "NetworkError",
      NetworkError     |-> "TransportError",
      TransportError   |-> "RequestError",
      RequestError     |-> "HTTPError" ]

RECURSIVE IsHttpx(_, _)
IsHttpx(c, base) ==
    IF c = base THEN TRUE
    ELSE IF c \in DOMAIN HttpxParent THEN IsHttpx(HttpxParent[c], base)
    ELSE FALSE

\* response.is_success
is_success(status_code) == 200 <= status_code /\ status_code <= 299

\* bool(response.text)
has_text(body) == body.kind # "empty"

\* the text of the body, as it appears in a message
body_text(body) ==
    CASE body.kind = "empty" -> ""
      [] body.kind = "garbage" -> "<html>"
      [] OTHER -> "<json>"

\* response.json()
response_json(body) ==
    IF body.kind = "json" THEN Ok(body.v)
    ELSE Raise(Builtin("JSONDecodeError", "Expecting value"))

\* path.lstrip('/') on a path given as a sequence of pieces
RECURSIVE lstrip_slash(_)
lstrip_slash(path) ==
    IF Len(path) > 0 /\ Head(path) = "/" THEN lstrip_slash(Tail(path)) ELSE path

\* the url of a request: f"{self.base_url}/{path.lstrip('/')}"
request_url(path) == <<DEFAULT_BASE_URL, "/">> \o lstrip_slash(path)

\* int(s) for a string given as its characters: surrounding blanks are
\* stripped, a sign is allowed, and at least one decimal digit must follow
DigitVal ==
    [ c \in {"0", "1", "2", "3", "4", "5", "6", "7", "8", "9"} |->
        CASE c = "0" -> 0 [] c = "1" -> 1 [] c = "2" -> 2 [] c = "3" -> 3
          [] c = "4" -> 4 [] c = "5" -> 5 [] c = "6" -> 6 [] c = "7" -> 7
          [] c = "8" -> 8 [] OTHER -> 9 ]

RECURSIVE StripLeft(_)
StripLeft(cs) == IF Len(cs) > 0 /\ Head(cs) = " " THEN StripLeft(Tail(cs)) ELSE cs

RECURSIVE StripRight(_)
StripRight(cs) ==
    IF Len(cs) > 0 /\ cs[Len(cs)] = " "
    THEN StripRight(SubSeq(cs, 1, Len(cs) - 1)) ELSE cs

RECURSIVE DigitsValue(_)
DigitsValue(cs) ==
    IF Len(cs) = 0 THEN 0
    ELSE DigitsValue(SubSeq(cs, 1, Len(cs) - 1)) * 10 + DigitVal[cs[Len(cs)]]

int(cs) ==
    LET stripped == StripRight(StripLeft(cs))
        signed == Len(stripped) > 0 /\ stripped[1] \in {"+", "-"}
        digits == IF signed THEN Tail(stripped) ELSE stripped
    IN IF Len(digits) > 0 /\ \A i \in 1..Len(digits) : digits[i] \in DOMAIN DigitVal
       THEN Ok(Num(IF signed /\ stripped[1] = "-"
                   THEN 0 - DigitsValue(digits) ELSE DigitsValue(digits)))
       ELSE Raise(Builtin("ValueError", "invalid literal for int()"))

\* response.json() if response.text else None
json_if_text(body) == IF has_text(body) THEN response_json(body) ELSE Ok(PyNone)

(***************************************************************************)
(* BountyBoardClient     ._request (client.py).  The response is the outcome of             *)
(* self._client.request: resp.transport is "ok" or the httpx exception.    *)
(***************************************************************************)
\* the except clauses around self._client.request
Sync_transport_failure(exc) ==
    IF IsHttpx(exc, "TimeoutException")
    THEN Raise(APIError(<<"Request timed out after ", DEFAULT_TIMEOUT, "s">>, 0, PyNone, exc))
    ELSE IF IsHttpx(exc, "RequestError")
    THEN Raise(APIError(<<"Request failed: ", exc>>, 0, PyNone, exc))
    ELSE Raise(Builtin(exc, "httpx"))

\* the 429 branch
Sync_rate_limit(resp) ==
    LET retry_after == resp.retry_after
        seconds == IF Truthy(retry_after) THEN int(retry_after.v) ELSE Ok(PyNone)
    IN IF seconds.ok
       THEN Raise(RateLimitError(<<"Rate limit exceeded">>, seconds.v, PyNone))
       ELSE seconds

\* "Handle error status codes": raises, or falls through with None
Sync_raise_for_status(path, resp) ==
    IF resp.status_code = 404
    THEN Raise(NotFoundError(<<"Resource not found: ">> \o path, PyNone))
    ELSE IF resp.status_code = 400
    THEN LET payload == json_if_text(resp.body)
         IN IF payload.ok
            THEN Raise(ValidationError(<<"Validation error: ", body_text(resp.body)>>,
                                       payload.v))
            ELSE payload
    ELSE IF resp.status_code = 401
    THEN Raise(AuthenticationError(<<"Authentication required">>, PyNone))
    ELSE IF resp.status_code = 429
    THEN Sync_rate_limit(resp)
    ELSE IF resp.status_code >= 500
    THEN Raise(ServerError(<<"Server error: ", ToString(resp.status_code)>>,
                           resp.status_code, PyNone))
    ELSE IF ~is_success(resp.status_code)
    THEN LET payload == json_if_text(resp.body)
         IN IF payload.ok
            THEN Raise(APIError(<<"API error: ", ToString(resp.status_code)>>,
                                resp.status_code, payload.v, "None"))
            ELSE payload
    ELSE Ok(PyNone)

\* "Parse response" with the test for status 204 left out
Sync_parse_response_no_204(resp) ==
    IF ~has_text(resp.body)
    THEN Ok(EmptyDict)
    ELSE LET parsed == response_json(resp.body)
         IN IF parsed.ok THEN parsed
            ELSE Raise(APIError(<<"Invalid JSON response: ", parsed.err.what>>,
                                resp.status_code, PyNone, parsed.err.exc))

\* "Parse response"
Sync_parse_response(resp) ==
    IF resp.status_code = 204 \/ ~has_text(resp.body)
    THEN Ok(EmptyDict)
    ELSE LET parsed == response_json(resp.body)
         IN IF parsed.ok THEN parsed
            ELSE Raise(APIError(<<"Invalid JSON response: ", parsed.err.what>>,
                                resp.status_code, PyNone, parsed.err.exc))

Sync_request(method, path, resp) ==
    IF resp.transport # "ok"
    THEN Sync_transport_failure(resp.transport)
    ELSE LET checked == Sync_raise_for_status(path, resp)
         IN IF ~checked.ok THEN checked ELSE Sync_parse_response(resp)

(***************************************************************************)
(* AsyncBountyBoardClient._request (client.py).  The response is the outcome of             *)
(* self._client.request: resp.transport is "ok" or the httpx exception.    *)
(***************************************************************************)
\* the except clauses with the httpx.RequestError clause left out
Async_transport_failure_timeout_only(exc) ==
    IF IsHttpx(exc, "TimeoutException")
    THEN Raise(APIError(<<"Request timed out after ", DEFAULT_TIMEOUT, "s">>, 0, PyNone, exc))
    ELSE Raise(Builtin(exc, "httpx"))

\* the except clauses around self._client.request
Async_transport_failure(exc) ==
    IF IsHttpx(exc, "TimeoutException")
    THEN Raise(APIError(<<"Request timed out after ", DEFAULT_TIMEOUT, "s">>, 0, PyNone, exc))
    ELSE IF IsHttpx(exc, "RequestError")
    THEN Raise(APIError(<<"Request failed: ", exc>>, 0, PyNone, exc))
    ELSE Raise(Builtin(exc, "httpx"))

\* the 429 branch
Async_rate_limit(resp) ==
    LET retry_after == resp.retry_after
        seconds == IF Truthy(retry_after) THEN int(retry_after.v) ELSE Ok(PyNone)
    IN IF seconds.ok
       THEN Raise(RateLimitError(<<"Rate limit exceeded">>, seconds.v, PyNone))
       ELSE seconds

\* "Handle error status codes": raises, or falls through with None
Async_raise_for_status(path, resp) ==
    IF resp.status_code = 404
    THEN Raise(NotFoundError(<<"Resource not found: ">> \o path, PyNone))
    ELSE IF resp.status_code = 400
    THEN LET payload == json_if_text(resp.body)
         IN IF payload.ok
            THEN Raise(ValidationError(<<"Validation error: ", body_text(resp.body)>>,
                                       payload.v))
            ELSE payload
    ELSE IF resp.status_code = 401
    THEN Raise(AuthenticationError(<<"Authentication required">>, PyNone))
    ELSE IF resp.status_code = 429
    THEN Async_rate_limit(resp)
    ELSE IF resp.status_code >= 500
    THEN Raise(ServerError(<<"Server error: ", ToString(resp.status_code)>>,
                           resp.status_code, PyNone))
    ELSE IF ~is_success(resp.status_code)
    THEN LET payload == json_if_text(resp.body)
         IN IF payload.ok
            THEN Raise(APIError(<<"API error: ", ToString(resp.status_code)>>,
                                resp.status_code, payload.v, "None"))
            ELSE payload
    ELSE Ok(PyNone)

\* "Parse response"
Async_parse_response(resp) ==
    IF resp.status_code = 204 \/ ~has_text(resp.body)
    THEN Ok(EmptyDict)
    ELSE LET parsed == response_json(resp.body)
         IN IF parsed.ok THEN parsed
            ELSE Raise(APIError(<<"Invalid JSON response: ", parsed.err.what>>,
                                resp.status_code, PyNone, parsed.err.exc))

Async_request(method, path, resp) ==
    IF resp.transport # "ok"
    THEN Async_transport_failure(resp.transport)
    ELSE LET checked == Async_raise_for_status(path, resp)
         IN IF ~checked.ok THEN checked ELSE Async_parse_response(resp)

(***************************************************************************)
(* The operations of BountyBoardClient     .                                                *)
(***************************************************************************)
SyncOps == {"list_bounties", "get_bounty", "get_stats", "get_x402_config",
            "create_bounty", "claim_bounty", "submit_work"}

\* the arguments each operation passes to self._request
Sync_request_args(op, args) ==
    CASE op = "list_bounties" ->
            [method |-> "GET", path |-> <<"/", "bounties">>, json |-> PyNone]
      [] op = "get_bounty" ->
            [method |-> "GET", path |-> <<"/", "bounties", "/", args.bounty_id>>,
             json |-> PyNone]
      [] op = "get_stats" ->
            [method |-> "GET", path |-> <<"/", "stats">>, json |-> PyNone]
      [] op = "get_x402_config" ->
            [method |-> "GET", path |-> <<"/", ".well-known", "/", "x402">>,
             json |-> PyNone]
      [] op = "claim_bounty" ->
            [method |-> "POST",
             path |-> <<"/", "bounties", "/", args.bounty_id, "/", "claim">>,
             json |-> Obj([walletAddress |-> Str(args.wallet_address)])]
      [] op = "submit_work" ->
            [method |-> "POST",
             path |-> <<"/", "bounties", "/", args.bounty_id, "/", "submit">>,
             json |-> IF Truthy(args.proof)
                      THEN Obj([walletAddress |-> Str(args.wallet_address),
                                content |-> Str(args.content),
                                proof |-> args.proof])
                      ELSE Obj([walletAddress |-> Str(args.wallet_address),
                                content |-> Str(args.content)])]

\* what each operation builds from the data _request returned
Sync_build(op, data) ==
    CASE op = "list_bounties" -> ListComp(Bounty_from_dict, Iterate(data))
      [] op = "get_stats" -> Stats_from_dict(data)
      [] op = "get_x402_config" -> X402Config_from_dict(data)
      [] OTHER -> Bounty_from_dict(data)

\* create_bounty: raises before anything is sent
Sync_create_bounty(args) ==
    Raise(Builtin("NotImplementedError", "x402 payment implementation required"))

(***************************************************************************)
(* The operations of AsyncBountyBoardClient.                                                *)
(***************************************************************************)
AsyncOps == {"list_bounties", "get_bounty", "get_stats", "get_x402_config",
             "claim_bounty", "submit_work"}

\* the arguments each operation passes to self._request
Async_request_args(op, args) ==
    CASE op = "list_bounties" ->
            [method |-> "GET", path |-> <<"/", "bounties">>, json |-> PyNone]
      [] op = "get_bounty" ->
            [method |-> "GET", path |-> <<"/", "bounties", "/", args.bounty_id>>,
             json |-> PyNone]
      [] op = "get_stats" ->
            [method |-> "GET", path |-> <<"/", "stats">>, json |-> PyNone]
      [] op = "get_x402_config" ->
            [method |-> "GET", path |-> <<"/", ".well-known", "/", "x402">>,
             json |-> PyNone]
      [] op = "claim_bounty" ->
            [method |-> "POST",
             path |-> <<"/", "bounties", "/", args.bounty_id, "/", "claim">>,
             json |-> Obj([walletAddress |-> Str(args.wallet_address)])]
      [] op = "submit_work" ->
            [method |-> "POST",
             path |-> <<"/", "bounties", "/", args.bounty_id, "/", "submit">>,
             json |-> IF Truthy(args.proof)
                      THEN Obj([walletAddress |-> Str(args.wallet_address),
                                content |-> Str(args.content),
                                proof |-> args.proof])
                      ELSE Obj([walletAddress |-> Str(args.wallet_address),
                                content |-> Str(args.content)])]

\* what each operation builds from the data _request returned
Async_build(op, data) ==
    CASE op = "list_bounties" -> ListComp(Bounty_from_dict, Iterate(data))
      [] op = "get_stats" -> Stats_from_dict(data)
      [] op = "get_x402_config" -> X402Config_from_dict(data)
      [] OTHER -> Bounty_from_dict(data)

\* looking up a method the class does not define
missing_attribute(op) == Raise(Builtin("AttributeError", op))

(***************************************************************************)
(* Inputs: call arguments and responses.                                   *)
(***************************************************************************)
Without(obj, key) == Obj([k \in DOMAIN obj.v \ {key} |-> obj.v[k]])
With(obj, key, val) ==
    Obj([k \in DOMAIN obj.v \cup {key} |-> IF k = key THEN val ELSE obj.v[k]])

\* all sequences over S of length at most n
SeqsUpTo(S, n) == UNION {[1..k -> S] : k \in 0..n}

SubmissionJson ==
    Obj([id |-> Str("12e9eccd"), proof |-> PyNone,
         content |-> Str("submitted bounty"), submittedAt |-> Kilo(1770441177)])
SubmissionRequired == {"id", "content", "submittedAt"}

RejectionJson ==
    Obj([reason |-> Str("incomplete"), rejectedAt |-> Str(IsoZ),
         previousClaimant |-> Str("0xa85b"),
         previousSubmissions |-> Arr(<<SubmissionJson>>)])
RejectionRequired == {"reason", "rejectedAt"}

PendingPaymentJson ==
    Obj([fee |-> Num(28650000), chain |-> Str("base"), token |-> Str("USDC"),
         netReward |-> Num(544350000), grossReward |-> Num(573000000),
         recipient |-> Str("0xa85b")])
PendingPaymentRequired ==
    {"fee", "chain", "token", "netReward", "grossReward", "recipient"}

PaymentJson ==
    Obj([fee |-> Num(28650000), chain |-> Str("base"), token |-> Str("USDC"),
         txHash |-> Str("0x5c95"), netReward |-> Num(544350000),
         feePercent |-> Str("5%"), grossReward |-> Num(573000000),
         processedAt |-> Str(IsoZ), processedBy |-> Str("payment-relay"),
         feeFormatted |-> Str("28.65 USDC"),
         netRewardFormatted |-> Str("544.35 USDC")])
PaymentRequired ==
    {"fee", "chain", "token", "netReward", "grossReward", "txHash", "processedAt",
     "processedBy", "feePercent", "feeFormatted", "netRewardFormatted"}

BountyJson ==
    Obj([id |-> Str("143"), uuid |-> Str("7c590dc7"),
         title |-> Str("Write AI Agent Negotiation Simulation"),
         description |-> Str("Create a simulation"),
         reward |-> Num(20000000), rewardFormatted |-> Str("20.00 USDC"),
         status |-> Str("open"), creator |-> Str("0xccD7"),
         deadline |-> Str("2026-02-20"), claimedBy |-> PyNone,
         createdAt |-> Kilo(1770449294), updatedAt |-> Kilo(1770449294),
         tags |-> Arr(<<Str("coding"), Str("simulation")>>),
         submissions |-> Arr(<<>>),
         requirements |-> Arr(<<Str("Source code")>>)])
BountyRequired ==
    {"id", "uuid", "title", "description", "reward", "rewardFormatted", "status",
     "creator", "createdAt", "updatedAt"}

CompletedBountyJson ==
    Obj([id |-> Str("108"), uuid |-> Str("ab244eb8"),
         title |-> Str("Build Farcaster Mini-App for Bounties"),
         description |-> Str("Create a Farcaster Frame"),
         reward |-> Num(573000000), rewardFormatted |-> Str("573.00 USDC"),
         status |-> Str("completed"), creator |-> Str("0xA85b"),
         deadline |-> Kilo(1771045906), claimedBy |-> Str("0xa85b"),
         claimedAt |-> Kilo(1770441109), createdAt |-> Kilo(1770441106),
         updatedAt |-> Kilo(1770441207), approvedAt |-> Kilo(1770441179),
         completedAt |-> Kilo(1770441207),
         tags |-> Arr(<<Str("coding"), Str("farcaster")>>),
         submissions |-> Arr(<<SubmissionJson>>),
         requirements |-> Arr(<<>>),
         payment |-> PaymentJson])

StatsJson ==
    Obj([totalBounties |-> Num(137), openBounties |-> Num(21),
         completedBounties |-> Num(34), totalRewardsUSDC |-> Num(1912),
         totalAgents |-> Num(11), dbConnected |-> Bool(TRUE)])
StatsRequired ==
    {"totalBounties", "openBounties", "completedBounties", "totalRewardsUSDC",
     "totalAgents", "dbConnected"}

TokenConfigJson ==
    Obj([network |-> Str("base"), token |-> Str("USDC"),
         address |-> Str("0x8335"), minAmount |-> Str("100000")])
TokenConfigRequired == {"network", "token", "address", "minAmount"}

X402ConfigJson ==
    Obj([version |-> Str("1.0"), network |-> Str("base"), chainId |-> Num(8453),
         accepts |-> Arr(<<TokenConfigJson>>),
         facilitator |-> Str("https://x402.org/facilitator"),
         treasury |-> Str("0xccD7")])
X402ConfigRequired ==
    {"version", "network", "chainId", "accepts", "facilitator", "treasury"}

\* Bounty objects: well-formed, and malformed in one place
BountyJsons ==
    {BountyJson, CompletedBountyJson}
    \cup {Without(BountyJson, f) : f \in BountyRequired}
    \cup {With(BountyJson, "payment", x) :
            x \in {PyNone, EmptyDict, PaymentJson, Without(PaymentJson, "txHash"),
                   Without(PaymentJson, "fee")}}
    \cup {With(BountyJson, "pendingPayment", x) :
            x \in {PyNone, EmptyDict, PendingPaymentJson,
                   Without(PendingPaymentJson, "recipient")}}
    \cup {With(BountyJson, "submissions", Arr(x)) :
            x \in {<<SubmissionJson>>, <<EmptyDict>>,
                   <<SubmissionJson, Without(SubmissionJson, "content")>>}}
    \cup {With(BountyJson, "rejections", Arr(x)) :
            x \in {<<RejectionJson>>, <<Without(RejectionJson, "reason")>>,
                   <<With(RejectionJson, "previousSubmissions",
                          Arr(<<Without(SubmissionJson, "id")>>))>>}}
    \cup {With(BountyJson, "status", Str("archived")),
          Without(BountyJson, "deadline"),
          With(BountyJson, "deadline", Num(0))}

\* the elements of the arrays returned for list_bounties
ListElements ==
    {BountyJson, Without(BountyJson, "id"), With(BountyJson, "payment", EmptyDict)}

StatsJsons == {StatsJson} \cup {Without(StatsJson, f) : f \in StatsRequired}

X402ConfigJsons ==
    {X402ConfigJson}
    \cup {Without(X402ConfigJson, f) : f \in {"version", "accepts"}}
    \cup {With(X402ConfigJson, "accepts",
               Arr(<<TokenConfigJson, Without(TokenConfigJson, "minAmount")>>))}

JsonValues ==
    BountyJsons \cup StatsJsons \cup X402ConfigJsons
    \cup {Arr(x) : x \in SeqsUpTo(ListElements, MaxListLen)}
    \cup {PyNone, EmptyDict}

Bodies ==
    {[kind |-> "empty"], [kind |-> "garbage"]}
    \cup {[kind |-> "json", v |-> x] : x \in JsonValues}

StatusCodes == {200, 201, 204, 301, 400, 401, 403, 404, 429, 500, 503}

TransportFailures == {"ConnectTimeout", "ReadTimeout", "ConnectError", "ReadError"}

\* values of the Retry-After header: absent, or a string
HeaderChars == {"0", "5", "x"}
RetryAfterValues ==
    {PyNone} \cup {Chars(cs) : cs \in SeqsUpTo(HeaderChars, MaxHeaderLen)}

HttpResponse(status_code, retry_after, body) ==
    [transport |-> "ok", status_code |-> status_code,
     retry_after |-> retry_after, body |-> body]

Responses ==
    {[transport |-> x] : x \in TransportFailures}
    \cup {HttpResponse(429, h, b) :
            h \in RetryAfterValues, b \in {[kind |-> "empty"], [kind |-> "garbage"]}}
    \cup {HttpResponse(c, h, b) :
            c \in StatusCodes, h \in {PyNone, Chars(<<"5">>)}, b \in Bodies}

NoResponse == [transport |-> "none"]

BountyIds == {"143"}
Wallets == {"0xa85b"}
Contents == {"submitted bounty"}
Proofs == {PyNone, Str(""), Str("https://proof")}

ArgsOf(op) ==
    CASE op \in {"list_bounties", "get_stats", "get_x402_config"} -> {[none |-> TRUE]}
      [] op = "get_bounty" -> {[bounty_id |-> b] : b \in BountyIds}
      [] op = "claim_bounty" ->
            {[bounty_id |-> b, wallet_address |-> w] : b \in BountyIds, w \in Wallets}
      [] op = "submit_work" ->
            {[bounty_id |-> b, wallet_address |-> w, content |-> c, proof |-> p] :
                b \in BountyIds, w \in Wallets, c \in Contents, p \in Proofs}
      [] op = "create_bounty" ->
            {[title |-> "t", description |-> "d", reward_usdc |-> Num(10),
              requirements |-> Arr(<<>>), tags |-> g, deadline |-> d] :
                g \in {PyNone, Arr(<<Str("coding")>>)},
                d \in {PyNone, Str("2026-02-20")}}

(***************************************************************************)
(* The state machine: one call at a time on either client.                 *)
(*   pc        "idle", "waiting" (request sent, no response yet), "done"   *)
(*   surface   "sync" (BountyBoardClient) or "async"                       *)
(*   op, args  the operation called and its arguments                     *)
(*   requests  the HTTP requests the call has issued                       *)
(*   response  the outcome of the HTTP exchange                            *)
(*   data      what _request returned or raised                            *)
(*   built     whether a from_dict constructor ran on the response         *)
(*   result    what the operation returned or raised                       *)
(*                                                                         *)
(* A client instance and its scoped use (section "A client instance"):     *)
(*   client    the instance: its transport, its headers, its settings      *)
(*   scope     where the with / async with block around the client stands  *)
(*   calls     the calls issued from the instance, by call number          *)
(*                                                                         *)
(* The model layer applied to a value (section "The model layer applied"): *)
(*   fop       the function applied                                        *)
(*   fin       its input                                                   *)
(*   fout      what it returned or raised                                  *)
(***************************************************************************)
VARIABLES pc, surface, op, args, requests, response, data, built, result
VARIABLES client, scope, calls
VARIABLES fop, fin, fout, filter

\* the state of one call
callvars == <<pc, surface, op, args, requests, response, data, built, result>>

Surfaces == {"sync", "async"}
AllOps == SyncOps \cup AsyncOps
OpsOf(s) == IF s = "sync" THEN SyncOps ELSE AsyncOps

\* the state of a client instance and of the calls issued from it
clientvars == <<client, scope, calls>>
\* the state of an application of the model layer
fnvars == <<fop, fin, fout, filter>>

vars == <<callvars, clientvars, fnvars, localtz>>

Pending == [pending |-> TRUE]
NoArgs == [none |-> TRUE]

\* no client has been constructed and no call issued
NoClient == [state |-> "none"]
IdleCall == [pc |-> "idle"]
ClientIdle ==
    /\ client = NoClient
    /\ scope = "outside"
    /\ calls = [i \in 1..MaxCalls |-> IdleCall]

\* nothing has been applied
FnIdle ==
    /\ fop = "none"
    /\ fin = PyNone
    /\ fout = Pending
    /\ filter = BountyFilter_init(PyNone)

\* the request an operation hands to the transport
RequestOf(s, o, a) ==
    LET ra == IF s = "sync" THEN Sync_request_args(o, a) ELSE Async_request_args(o, a)
    IN [method |-> ra.method, path |-> ra.path, url |-> request_url(ra.path),
        json |-> ra.json]

\* what _request makes of the response
DataOf(s, req, r) ==
    IF s = "sync" THEN Sync_request(req.method, req.path, r)
    ELSE Async_request(req.method, req.path, r)

\* what the operation makes of the data
ResultOf(s, o, d) ==
    IF ~d.ok THEN d
    ELSE IF s = "sync" THEN Sync_build(o, d.v) ELSE Async_build(o, d.v)

Init ==
    /\ pc = "idle"
    /\ surface = "sync"
    /\ op = "none"
    /\ args = NoArgs
    /\ requests = <<>>
    /\ response = NoResponse
    /\ data = Pending
    /\ built = FALSE
    /\ result = Pending
    /\ localtz \in LocalZones
    /\ ClientIdle
    /\ FnIdle

\* an operation that goes through _request is called: the request is sent
Call(s, o, a) ==
    /\ pc = "idle"
    /\ o \in OpsOf(s) \ {"create_bounty"}
    /\ pc' = "waiting"
    /\ surface' = s
    /\ op' = o
    /\ args' = a
    /\ requests' = <<RequestOf(s, o, a)>>
    /\ UNCHANGED <<response, data, built, result>>
    /\ UNCHANGED <<clientvars, fnvars, localtz>>

\* the exchange ends, and a transport failure is retried once before the
\* call completes
Respond_retry(r) ==
    /\ pc = "waiting"
    /\ IF r.transport # "ok" /\ Len(requests) < 2
       THEN /\ requests' = Append(requests, requests[1])
            /\ UNCHANGED <<pc, data, built, result, response>>
       ELSE /\ LET d == DataOf(surface, requests[1], r)
               IN /\ data' = d
                  /\ built' = d.ok
                  /\ result' = ResultOf(surface, op, d)
            /\ response' = r
            /\ pc' = "done"
            /\ UNCHANGED requests
    /\ UNCHANGED <<surface, op, args>>
    /\ UNCHANGED <<clientvars, fnvars, localtz>>

\* the exchange ends (response or transport failure) and the call completes
Respond(r) ==
    /\ pc = "waiting"
    /\ LET d == DataOf(surface, requests[1], r)
       IN /\ data' = d
          /\ built' = d.ok
          /\ result' = ResultOf(surface, op, d)
    /\ response' = r
    /\ pc' = "done"
    /\ UNCHANGED <<surface, op, args, requests>>
    /\ UNCHANGED <<clientvars, fnvars, localtz>>

\* BountyBoardClient.create_bounty
CreateBounty(a) ==
    /\ pc = "idle"
    /\ pc' = "done"
    /\ surface' = "sync"
    /\ op' = "create_bounty"
    /\ args' = a
    /\ result' = Sync_create_bounty(a)
    /\ UNCHANGED <<requests, response, data, built>>
    /\ UNCHANGED <<clientvars, fnvars, localtz>>

\* an operation is called on a client whose class does not define it
CallMissing(s, o, a) ==
    /\ pc = "idle"
    /\ o \notin OpsOf(s)
    /\ pc' = "done"
    /\ surface' = s
    /\ op' = o
    /\ args' = a
    /\ result' = missing_attribute(o)
    /\ UNCHANGED <<requests, response, data, built>>
    /\ UNCHANGED <<clientvars, fnvars, localtz>>

\* the caller has the outcome; the client is ready for the next call
Return ==
    /\ pc = "done"
    /\ pc' = "idle"
    /\ surface' = "sync"
    /\ op' = "none"
    /\ args' = NoArgs
    /\ requests' = <<>>
    /\ response' = NoResponse
    /\ data' = Pending
    /\ built' = FALSE
    /\ result' = Pending
    /\ UNCHANGED <<clientvars, fnvars, localtz>>

Next ==
    \/ \E s \in Surfaces, o \in AllOps : \E a \in ArgsOf(o) : Call(s, o, a)
    \/ \E r \in Responses : Respond(r)
    \/ \E a \in ArgsOf("create_bounty") : CreateBounty(a)
    \/ \E s \in Surfaces, o \in AllOps : \E a \in ArgsOf(o) : CallMissing(s, o, a)
    \/ Return

Spec == Init /\ [][Next]_vars

TypeOK ==
    /\ pc \in {"idle", "waiting", "done"}
    /\ surface \in Surfaces
    /\ op \in AllOps \cup {"none"}
    /\ Len(requests) <= 1
    /\ built \in BOOLEAN

(***************************************************************************)
(* A client instance: construction, scoped use (with / async with), the    *)
(* calls issued from it, and close.  client.state is the state of the      *)
(* transport self._client: "open" from construction until it is closed.    *)
(***************************************************************************)
\* {**a, **b}: the entries of a, then those of b, a later key replacing an
\* earlier one
DictMerge(a, b) ==
    Obj([k \in DOMAIN a.v \cup DOMAIN b.v |->
            IF k \in DOMAIN b.v THEN b.v[k] ELSE a.v[k]])

\* headers or {}
headers_or_empty(headers) == IF Truthy(headers) THEN headers ELSE EmptyDict

\* BountyBoardClient.__init__ with the default base_url and timeout:
\* transport_headers are the headers handed to httpx.Client, transports counts
\* the transports the instance has created
Sync_init(headers) ==
    [state |-> "open", kind |-> "sync", base_url |-> DEFAULT_BASE_URL,
     timeout |-> DEFAULT_TIMEOUT, headers |-> headers_or_empty(headers),
     transport_headers |->
        DictMerge(Obj([Accept |-> Str("application/json")]),
                  headers_or_empty(headers)),
     transports |-> 1]

\* AsyncBountyBoardClient.__init__ with the default base_url and timeout
Async_init(headers) ==
    [state |-> "open", kind |-> "async", base_url |-> DEFAULT_BASE_URL,
     timeout |-> DEFAULT_TIMEOUT, headers |-> headers_or_empty(headers),
     transport_headers |->
        DictMerge(Obj([Accept |-> Str("application/json")]),
                  headers_or_empty(headers)),
     transports |-> 1]

\* BountyBoardClient.close: self._client.close()
Sync_close(c) == [c EXCEPT !.state = "closed"]

\* BountyBoardClient.__exit__: exc tells whether the block raised
Sync_exit(c, exc) == Sync_close(c)

\* AsyncBountyBoardClient.close: await self._client.aclose()
Async_close(c) == [c EXCEPT !.state = "closed"]

\* __aexit__ that closes only when the block ended without an exception
Async_aexit_unless_raised(c, exc) == IF exc THEN c ELSE Async_close(c)

\* AsyncBountyBoardClient.__aexit__: exc tells whether the block raised
Async_aexit(c, exc) == Async_close(c)

client_init(kind, headers) ==
    IF kind = "sync" THEN Sync_init(headers) ELSE Async_init(headers)
client_close(c) == IF c.kind = "sync" THEN Sync_close(c) ELSE Async_close(c)
client_exit(c, exc) ==
    IF c.kind = "sync" THEN Sync_exit(c, exc) ELSE Async_aexit(c, exc)

\* the request self._client.request sends: the transport adds the headers it
\* was constructed with (the operations pass none of their own)
client_request(c, o, a) ==
    LET req == RequestOf(c.kind, o, a)
    IN [method |-> req.method, path |-> req.path, url |-> req.url,
        json |-> req.json, headers |-> c.transport_headers]

\* self._client.request on a transport that has been closed
closed_transport == Raise(Builtin("RuntimeError", "the client has been closed"))

\* headers a caller constructs the client with
CallerHeaders ==
    {PyNone, EmptyDict,
     Obj([Authorization |-> Str("Bearer t")]),
     Obj([Accept |-> Str("text/html")])}

\* the operations and exchange outcomes used on the instance
ClientOps == {"get_bounty", "get_stats"}
ClientResponses ==
    {[transport |-> "ReadTimeout"],
     HttpResponse(200, PyNone, [kind |-> "json", v |-> BountyJson]),
     HttpResponse(200, PyNone, [kind |-> "json", v |-> StatsJson]),
     HttpResponse(404, PyNone, [kind |-> "empty"])}

Waiting(i) == calls[i].pc = "waiting"
Finished(i) == calls[i].pc = "done"
Failed(i) == Finished(i) /\ ~calls[i].result.ok

\* the client is constructed: the one place a transport is created
Construct(kind, headers) ==
    /\ client = NoClient
    /\ client' = client_init(kind, headers)
    /\ UNCHANGED <<scope, calls>>
    /\ UNCHANGED <<callvars, fnvars, localtz>>

\* __enter__ / __aenter__: returns self
EnterScope ==
    /\ client.state # "none"
    /\ scope = "outside"
    /\ scope' = "inside"
    /\ UNCHANGED <<client, calls>>
    /\ UNCHANGED <<callvars, fnvars, localtz>>

\* call number i is issued: up to self._client.request.  The blocking client
\* runs one call at a time, the asynchronous one yields while it waits.
Issue(i, o, a) ==
    /\ client.state # "none"
    /\ calls[i].pc = "idle"
    /\ \A j \in 1..(i - 1) : calls[j].pc # "idle"
    /\ client.kind = "sync" => \A j \in 1..MaxCalls : ~Waiting(j)
    /\ calls' =
          [calls EXCEPT ![i] =
             IF client.state = "closed"
             THEN [pc |-> "done", op |-> o, args |-> a, requests |-> <<>>,
                   response |-> NoResponse, result |-> closed_transport]
             ELSE [pc |-> "waiting", op |-> o, args |-> a,
                   requests |-> <<client_request(client, o, a)>>,
                   response |-> NoResponse, result |-> Pending]]
    /\ UNCHANGED <<client, scope>>
    /\ UNCHANGED <<callvars, fnvars, localtz>>

\* the exchange of call number i ends, and the call with it, and the client
\* keeps the data of the path in a cache that later calls answer from
Answer_cached(i, r) ==
    /\ Waiting(i)
    /\ LET req == calls[i].requests[1]
           hit == "cache" \in DOMAIN client /\ client.cache.path = req.path
           d == IF hit THEN client.cache.data
                ELSE DataOf(client.kind, req, r)
       IN /\ calls' = [calls EXCEPT ![i] =
                        [pc |-> "done", op |-> calls[i].op, args |-> calls[i].args,
                         requests |-> calls[i].requests, response |-> r,
                         result |-> ResultOf(client.kind, calls[i].op, d)]]
          /\ client' = [state |-> client.state, kind |-> client.kind,
                        base_url |-> client.base_url, timeout |-> client.timeout,
                        headers |-> client.headers,
                        transport_headers |-> client.transport_headers,
                        transports |-> client.transports,
                        cache |-> [path |-> req.path, data |-> d]]
    /\ UNCHANGED scope
    /\ UNCHANGED <<callvars, fnvars, localtz>>

\* the exchange of call number i ends, and the call with it: the rest of
\* _request and of the operation
Answer(i, r) ==
    /\ Waiting(i)
    /\ calls' =
          [calls EXCEPT ![i] =
             [pc |-> "done", op |-> calls[i].op, args |-> calls[i].args,
              requests |-> calls[i].requests, response |-> r,
              result |-> ResultOf(client.kind, calls[i].op,
                                  DataOf(client.kind, calls[i].requests[1], r))]]
    /\ UNCHANGED <<client, scope>>
    /\ UNCHANGED <<callvars, fnvars, localtz>>

\* control leaves the with block, normally or (raised) with the exception of
\* a call of the block: __exit__ / __aexit__
LeaveScope(raised) ==
    /\ scope = "inside"
    /\ raised => \E i \in 1..MaxCalls : Failed(i)
    /\ client.kind = "sync" => \A j \in 1..MaxCalls : ~Waiting(j)
    /\ client' = client_exit(client, raised)
    /\ scope' = IF raised THEN "left_raised" ELSE "left"
    /\ UNCHANGED calls
    /\ UNCHANGED <<callvars, fnvars, localtz>>

\* close() called by the caller
Close ==
    /\ client.state # "none"
    /\ client.kind = "sync" => \A j \in 1..MaxCalls : ~Waiting(j)
    /\ client' = client_close(client)
    /\ UNCHANGED <<scope, calls>>
    /\ UNCHANGED <<callvars, fnvars, localtz>>

ClientNext ==
    \/ \E k \in Surfaces, h \in CallerHeaders : Construct(k, h)
    \/ EnterScope
    \/ \E i \in 1..MaxCalls, o \in ClientOps : \E a \in ArgsOf(o) : Issue(i, o, a)
    \/ \E i \in 1..MaxCalls, r \in ClientResponses : Answer(i, r)
    \/ \E raised \in BOOLEAN : LeaveScope(raised)
    \/ Close

ClientSpec == Init /\ [][ClientNext]_vars

(***************************************************************************)
(* The model layer applied to a value: a from_dict constructor, the        *)
(* timestamp normalizer, or a constructor followed by a derived accessor.  *)
(***************************************************************************)
\* most zeros between the first and the last digit of an amount
MaxAmountZeros == 27
\* largest count in a Stats object
MaxCount == 3

\* amounts in micro-currency units
Amounts ==
    {Num(0), Num(1), Num(1500000), Num(20000000), Num(28650000),
     Num(544350000), Num(573000000)}
    \cup {BigInt(<<1>> \o Zeros(k) \o <<d>>) : k \in 0..MaxAmountZeros, d \in {1, 5}}

\* the accessors and the JSON key of the amount each one converts
AmountKey ==
    [ Bounty_reward_usdc               |-> "reward",
      Payment_fee_usdc                 |-> "fee",
      Payment_net_reward_usdc          |-> "netReward",
      Payment_gross_reward_usdc        |-> "grossReward",
      PendingPayment_fee_usdc          |-> "fee",
      PendingPayment_net_reward_usdc   |-> "netReward",
      PendingPayment_gross_reward_usdc |-> "grossReward" ]
UsdcAccessors == DOMAIN AmountKey
StatsAccessors == {"Stats_completion_rate", "Stats_average_reward_usdc"}

\* X.from_dict(x).accessor
access(f, x) ==
    CASE f = "Bounty_reward_usdc" -> Bind(Bounty_from_dict(x), Bounty_reward_usdc)
      [] f = "Payment_fee_usdc" -> Bind(Payment_from_dict(x), Payment_fee_usdc)
      [] f = "Payment_net_reward_usdc" ->
            Bind(Payment_from_dict(x), Payment_net_reward_usdc)
      [] f = "Payment_gross_reward_usdc" ->
            Bind(Payment_from_dict(x), Payment_gross_reward_usdc)
      [] f = "PendingPayment_fee_usdc" ->
            Bind(PendingPayment_from_dict(x), PendingPayment_fee_usdc)
      [] f = "PendingPayment_net_reward_usdc" ->
            Bind(PendingPayment_from_dict(x), PendingPayment_net_reward_usdc)
      [] f = "PendingPayment_gross_reward_usdc" ->
            Bind(PendingPayment_from_dict(x), PendingPayment_gross_reward_usdc)
      [] f = "Stats_completion_rate" ->
            Bind(Stats_from_dict(x), Stats_completion_rate)
      [] f = "Stats_average_reward_usdc" ->
            Bind(Stats_from_dict(x), Stats_average_reward_usdc)

\* the JSON objects an accessor is read from
AccessInputs(f) ==
    CASE f = "Bounty_reward_usdc" ->
            {With(BountyJson, AmountKey[f], a) : a \in Amounts}
      [] f \in {"Payment_fee_usdc", "Payment_net_reward_usdc",
                "Payment_gross_reward_usdc"} ->
            {With(PaymentJson, AmountKey[f], a) : a \in Amounts}
      [] f \in {"PendingPayment_fee_usdc", "PendingPayment_net_reward_usdc",
                "PendingPayment_gross_reward_usdc"} ->
            {With(PendingPaymentJson, AmountKey[f], a) : a \in Amounts}
      [] f \in StatsAccessors ->
            {Obj([totalBounties |-> Num(t), openBounties |-> Num(0),
                  completedBounties |-> Num(c), totalRewardsUSDC |-> r,
                  totalAgents |-> Num(11), dbConnected |-> Bool(TRUE)]) :
                t \in 0..MaxCount, c \in 0..MaxCount,
                r \in {Num(0), Num(1912), [t |-> "num", v |-> 191261, e |-> 0 - 2]}}

\* values handed to the timestamp normalizer
TimestampValues ==
    {Kilo(1770441207), Num(1770441207), Num(0), Num(1),
     [t |-> "num", v |-> 1, e |-> 12], [t |-> "num", v |-> 1000000001, e |-> 3],
     Bool(TRUE), Str(IsoZ), Str(IsoOffset), Str(IsoNaive), Str(IsoBad), PyNone}

\* the two encodings of a timestamp on the wire
WireTimestamps == {Kilo(1770441207), Str(IsoZ), Str(IsoOffset), Str(IsoNaive)}

\* the timestamp fields of each entity, and the attribute each one fills
TimestampFields ==
    [ Submission |-> [submittedAt |-> "submitted_at"],
      Rejection  |-> [rejectedAt |-> "rejected_at"],
      Payment    |-> [processedAt |-> "processed_at"],
      Bounty     |-> [createdAt |-> "created_at", updatedAt |-> "updated_at",
                      claimedAt |-> "claimed_at", approvedAt |-> "approved_at",
                      completedAt |-> "completed_at"] ]
Entities == DOMAIN TimestampFields

SampleJson(e) ==
    CASE e = "Submission" -> SubmissionJson
      [] e = "Rejection" -> RejectionJson
      [] e = "Payment" -> PaymentJson
      [] e = "Bounty" -> CompletedBountyJson

\* X.from_dict
from_dict(e, x) ==
    CASE e = "Submission" -> Submission_from_dict(x)
      [] e = "Rejection" -> Rejection_from_dict(x)
      [] e = "Payment" -> Payment_from_dict(x)
      [] e = "Bounty" -> Bounty_from_dict(x)

\* values of the deadline field of a Bounty object
DeadlineValues ==
    {PyNone, Num(0), Num(5), Kilo(1771045906), Str("2026-02-20"), Str("")}

\* the JSON objects a constructor is applied to
FromDictInputs(e) ==
    {SampleJson(e)}
    \cup {With(SampleJson(e), k, w) :
            k \in DOMAIN TimestampFields[e], w \in WireTimestamps}
    \cup (IF e = "Bounty"
          THEN {BountyJson, Without(BountyJson, "deadline")}
               \cup {With(BountyJson, "deadline", d) : d \in DeadlineValues}
          ELSE {})

\* a constructor followed by an accessor is applied
Access(f, x) ==
    /\ fop = "none"
    /\ fop' = f
    /\ fin' = x
    /\ fout' = access(f, x)
    /\ UNCHANGED <<callvars, clientvars, localtz, filter>>

\* _parse_timestamp is applied
ParseTimestamp(ts) ==
    /\ fop = "none"
    /\ fop' = "_parse_timestamp"
    /\ fin' = ts
    /\ fout' = parse_timestamp(ts)
    /\ UNCHANGED <<callvars, clientvars, localtz, filter>>

\* a from_dict constructor is applied
FromDict(e, x) ==
    /\ fop = "none"
    /\ fop' = e
    /\ fin' = x
    /\ fout' = from_dict(e, x)
    /\ UNCHANGED <<callvars, clientvars, localtz, filter>>

\* a digit repeated k times
Repeat(d, k) == [i \in 1..k |-> d]

\* the integers converted: small ones of either sign and the amounts
MicroValues == Amounts \cup {Num(0 - 1500000), Num(0 - 1)}

\* the decimals converted: up to six fractional digits, more than six, and
\* more significant digits than the context keeps
UsdcValues ==
    {Dec(sg, ds, e) :
        sg \in {1, 0 - 1},
        ds \in {<<0>>, <<1, 0, 5>>, <<1>>, <<1, 9, 9, 9, 9, 9, 9, 9>>, <<1, 5>>},
        e \in {0 - 7, 0 - 6, 0 - 1, 0, 2}}
    \cup {Dec(1, <<1>> \o Zeros(k) \o <<1>>, 0 - 6) : k \in (MaxAmountZeros - 1)..MaxAmountZeros}
    \cup {Dec(1, Repeat(9, MaxAmountZeros + 4), 0 - (MaxAmountZeros + 4))}

Conversions == {"usdc_to_micro", "micro_round_trip", "usdc_round_trip"}

\* the conversion f of x
convert(f, x) ==
    CASE f = "usdc_to_micro" -> usdc_to_micro(x)
      [] f = "micro_round_trip" -> Bind(micro_to_usdc(x), usdc_to_micro)
      [] f = "usdc_round_trip" -> Bind(usdc_to_micro(x), micro_to_usdc)

ConversionInputs(f) == IF f = "micro_round_trip" THEN MicroValues ELSE UsdcValues

\* a unit conversion, or one after the other, is applied
Convert(f, x) ==
    /\ fop = "none"
    /\ fop' = f
    /\ fin' = x
    /\ fout' = convert(f, x)
    /\ UNCHANGED <<callvars, clientvars, localtz, filter>>

\* the caller is done with the value
Forget ==
    /\ fop # "none"
    /\ fop' = "none"
    /\ fin' = PyNone
    /\ fout' = Pending
    /\ UNCHANGED <<callvars, clientvars, localtz, filter>>

ModelNext ==
    \/ \E f \in UsdcAccessors \cup StatsAccessors : \E x \in AccessInputs(f) :
            Access(f, x)
    \/ \E ts \in TimestampValues : ParseTimestamp(ts)
    \/ \E e \in Entities : \E x \in FromDictInputs(e) : FromDict(e, x)
    \/ \E f \in Conversions : \E x \in ConversionInputs(f) : Convert(f, x)
    \/ Forget

ModelSpec == Init /\ [][ModelNext]_vars

(***************************************************************************)
(* The filter specification: a BountyFilter is built call by call and      *)
(* applied to lists of bounties.                                           *)
(***************************************************************************)
\* criteria set on one filter
MaxCriteria == 2
\* statuses, and tags, accumulated on one filter
MaxFilterValues == 2
\* bounties in one list
MaxBounties == 2

Status(v) == [t |-> "BountyStatus", v |-> v]

\* a naive datetime, as datetime.fromtimestamp gives it
Naive(ms) == [t |-> "datetime", ms |-> ms, plus |-> 0, tz |-> "naive"]

\* the fields of a Bounty that apply and the sort functions read
SampleBounty(id, status, tags, reward, creator, claimed_by, title, description,
             payment, created_at, deadline) ==
    [t |-> "Bounty", id |-> Str(id), status |-> Status(status), tags |-> Arr(tags),
     reward |-> Num(reward), creator |-> Chars(creator), claimed_by |-> claimed_by,
     title |-> Chars(title), description |-> Chars(description), payment |-> payment,
     created_at |-> created_at, deadline |-> deadline]

SampleBounties ==
    { SampleBounty("1", "open", <<Chars(<<"A", "b">>)>>, 0,
                   <<"0", "x", "A", "b">>, PyNone, <<"A", "b">>, <<>>, PyNone,
                   Naive([v |-> 1770441207, e |-> 3]), PyNone),
      SampleBounty("2", "claimed", <<Chars(<<"B">>), Chars(<<"A">>)>>, 1500000,
                   <<"0", "x", "a", "b">>, Chars(<<"0", "x", "B">>),
                   <<"B">>, <<"x", "a">>, PyNone,
                   Naive([v |-> 1771045906, e |-> 3]),
                   Naive([v |-> 1771045906, e |-> 3])),
      SampleBounty("3", "completed", <<>>, 20000000,
                   <<"0", "x", "b">>, Chars(<<"0", "x", "b">>),
                   <<>>, <<"b">>, Payment_from_dict(PaymentJson).v,
                   fromisoformat(replace_Z(IsoTokens[IsoZ])).v,
                   Str("2026-02-20")) }

\* the lists of bounties, each bounty at most once as the API lists them
BountyLists ==
    {bs \in SeqsUpTo(SampleBounties, MaxBounties) :
        \A i, j \in 1..Len(bs) : bs[i] = bs[j] => i = j}

\* the arguments the builder is called with
StatusArgs == {<<Status("open")>>, <<Status("claimed"), Status("completed")>>}
TagArgs == {<<Chars(<<"A", "B">>)>>, <<Chars(<<"b">>)>>}
AnyTagArgs == {<<Chars(<<"B">>)>>, <<>>}
RewardArgs == {Dec(1, <<0>>, 0), Dec(1, <<1, 5>>, 0 - 1)}
RangeArgs == {<<Dec(1, <<1, 5>>, 0 - 1), Dec(1, <<2, 0>>, 0)>>}
CreatorArgs == {Chars(<<"0", "x", "A", "B">>), Chars(<<>>)}
ClaimantArgs == {Chars(<<"0", "x", "B">>), Chars(<<>>)}
QueryArgs == {Chars(<<"A">>), Chars(<<>>)}
CustomArgs == {PyNone, fee_paid}

Criteria ==
    {"statuses", "tags", "min_reward", "max_reward", "creator", "claimed_by",
     "search_query", "custom_filter"}

\* the criteria of f that differ from the defaults
Assigned(f) == {k \in Criteria : f[k] # BountyFilter_init(PyNone)[k]}

\* f is within the bounds
Fits(f) ==
    /\ Cardinality(Assigned(f)) <= MaxCriteria
    /\ Len(f.statuses.v) <= MaxFilterValues
    /\ Len(f.tags.v) <= MaxFilterValues

\* BountyFilter(custom_filter=...)
NewFilter(custom_filter) ==
    /\ fop = "none"
    /\ Fits(BountyFilter_init(custom_filter))
    /\ filter' = BountyFilter_init(custom_filter)
    /\ UNCHANGED <<callvars, clientvars, localtz, fop, fin, fout>>

\* filter.with_status(*statuses)
WithStatus(statuses) ==
    /\ fop = "none"
    /\ Fits(BountyFilter_with_status(filter, statuses))
    /\ filter' = BountyFilter_with_status(filter, statuses)
    /\ UNCHANGED <<callvars, clientvars, localtz, fop, fin, fout>>

\* filter.with_tags(*tags)
WithTags(tags) ==
    /\ fop = "none"
    /\ Fits(BountyFilter_with_tags(filter, tags))
    /\ filter' = BountyFilter_with_tags(filter, tags)
    /\ UNCHANGED <<callvars, clientvars, localtz, fop, fin, fout>>

\* filter.with_any_tags(*tags); the call is kept: the builder as it was and
\* the tags given
WithAnyTags(tags) ==
    /\ fop = "none"
    /\ Fits(BountyFilter_with_any_tags(filter, tags))
    /\ filter' = BountyFilter_with_any_tags(filter, tags)
    /\ fop' = "with_any_tags"
    /\ fin' = [self |-> filter, tags |-> tags]
    /\ fout' = Ok(BountyFilter_with_any_tags(filter, tags))
    /\ UNCHANGED <<callvars, clientvars, localtz>>

\* filter.custom_filter = custom_filter; the call is kept likewise
SetCustomFilter(custom_filter) ==
    /\ fop = "none"
    /\ Fits([filter EXCEPT !.custom_filter = custom_filter])
    /\ filter' = [filter EXCEPT !.custom_filter = custom_filter]
    /\ fop' = "set_custom_filter"
    /\ fin' = [self |-> filter, custom_filter |-> custom_filter]
    /\ fout' = Ok(PyNone)
    /\ UNCHANGED <<callvars, clientvars, localtz>>

\* filter.with_min_reward(amount)
WithMinReward(amount) ==
    /\ fop = "none"
    /\ Fits(BountyFilter_with_min_reward(filter, amount))
    /\ filter' = BountyFilter_with_min_reward(filter, amount)
    /\ UNCHANGED <<callvars, clientvars, localtz, fop, fin, fout>>

\* filter.with_max_reward(amount)
WithMaxReward(amount) ==
    /\ fop = "none"
    /\ Fits(BountyFilter_with_max_reward(filter, amount))
    /\ filter' = BountyFilter_with_max_reward(filter, amount)
    /\ UNCHANGED <<callvars, clientvars, localtz, fop, fin, fout>>

\* filter.with_reward_range(min_amount, max_amount)
WithRewardRange(min_amount, max_amount) ==
    /\ fop = "none"
    /\ Fits(BountyFilter_with_reward_range(filter, min_amount, max_amount))
    /\ filter' = BountyFilter_with_reward_range(filter, min_amount, max_amount)
    /\ UNCHANGED <<callvars, clientvars, localtz, fop, fin, fout>>

\* filter.with_creator(creator)
WithCreator(creator) ==
    /\ fop = "none"
    /\ Fits(BountyFilter_with_creator(filter, creator))
    /\ filter' = BountyFilter_with_creator(filter, creator)
    /\ UNCHANGED <<callvars, clientvars, localtz, fop, fin, fout>>

\* filter.with_claimed_by(claimant)
WithClaimedBy(claimant) ==
    /\ fop = "none"
    /\ Fits(BountyFilter_with_claimed_by(filter, claimant))
    /\ filter' = BountyFilter_with_claimed_by(filter, claimant)
    /\ UNCHANGED <<callvars, clientvars, localtz, fop, fin, fout>>

\* filter.search(query)
Search(query) ==
    /\ fop = "none"
    /\ Fits(BountyFilter_search(filter, query))
    /\ filter' = BountyFilter_search(filter, query)
    /\ UNCHANGED <<callvars, clientvars, localtz, fop, fin, fout>>

\* filter.apply(bounties)
Apply(bounties) ==
    /\ fop = "none"
    /\ fop' = "apply"
    /\ fin' = Arr(bounties)
    /\ fout' = BountyFilter_apply(filter, Arr(bounties))
    /\ UNCHANGED <<callvars, clientvars, localtz, filter>>

\* filter.to_query_params()
ToQueryParams ==
    /\ fop = "none"
    /\ fop' = "to_query_params"
    /\ fin' = filter
    /\ fout' = Ok(BountyFilter_to_query_params(filter))
    /\ UNCHANGED <<callvars, clientvars, localtz, filter>>

\* filter.apply(filter.apply(bounties)): the result is filtered again
ApplyAgain ==
    /\ fop = "apply"
    /\ fout.ok
    /\ fop' = "reapply"
    /\ fin' = fout.v
    /\ fout' = BountyFilter_apply(filter, fout.v)
    /\ UNCHANGED <<callvars, clientvars, localtz, filter>>

FilterNext ==
    \/ \E c \in CustomArgs : NewFilter(c)
    \/ \E ss \in StatusArgs : WithStatus(ss)
    \/ \E ts \in TagArgs : WithTags(ts)
    \/ \E ts \in AnyTagArgs : WithAnyTags(ts)
    \/ \E c \in CustomArgs : SetCustomFilter(c)
    \/ \E a \in RewardArgs : WithMinReward(a)
    \/ \E a \in RewardArgs : WithMaxReward(a)
    \/ \E r \in RangeArgs : WithRewardRange(r[1], r[2])
    \/ \E c \in CreatorArgs : WithCreator(c)
    \/ \E c \in ClaimantArgs : WithClaimedBy(c)
    \/ \E q \in QueryArgs : Search(q)
    \/ \E bs \in BountyLists : Apply(bs)
    \/ ApplyAgain
    \/ ToQueryParams
    \/ Forget

FilterSpec == Init /\ [][FilterNext]_vars

(***************************************************************************)
(* The sort specification: the caller holds one list of bounties and calls *)
(* apply and the sort functions on it, in any sequence.                    *)
(***************************************************************************)
\* the caller holds a list: it was taken, filtered or sorted
Holding == {"list", "apply", "sort_by_reward", "sort_by_created", "sort_by_deadline"}

\* the caller makes the list
Take(bounties) ==
    /\ fop = "none"
    /\ fop' = "list"
    /\ fin' = Arr(bounties)
    /\ fout' = Pending
    /\ UNCHANGED <<callvars, clientvars, localtz, filter>>

\* filter.apply(bounties) on the list held; apply builds new lists and
\* assigns no attribute of the filter
ApplyHeld ==
    /\ fop \in Holding
    /\ fop' = "apply"
    /\ fout' = BountyFilter_apply(filter, fin)
    /\ UNCHANGED <<callvars, clientvars, localtz, filter, fin>>

\* sort_by_reward with list.sort() on the argument in place of sorted()
SortByReward_in_place(descending) ==
    /\ fop \in Holding
    /\ fop' = "sort_by_reward"
    /\ fout' = sort_by_reward(fin, descending)
    /\ fin' = sort_by_reward(fin, descending).v
    /\ UNCHANGED <<callvars, clientvars, localtz, filter>>

\* sort_by_reward(bounties, descending) on the list held; sorted() returns a
\* new list
SortByReward(descending) ==
    /\ fop \in Holding
    /\ fop' = "sort_by_reward"
    /\ fout' = sort_by_reward(fin, descending)
    /\ UNCHANGED <<callvars, clientvars, localtz, filter, fin>>

\* sort_by_created(bounties, descending) on the list held
SortByCreated(descending) ==
    /\ fop \in Holding
    /\ fop' = "sort_by_created"
    /\ fout' = sort_by_created(fin, descending)
    /\ UNCHANGED <<callvars, clientvars, localtz, filter, fin>>

\* sort_by_deadline(bounties, descending) on the list held
SortByDeadline(descending) ==
    /\ fop \in Holding
    /\ fop' = "sort_by_deadline"
    /\ fout' = sort_by_deadline(fin, descending)
    /\ UNCHANGED <<callvars, clientvars, localtz, filter, fin>>

SortNext ==
    \/ \E ss \in StatusArgs : WithStatus(ss)
    \/ \E a \in RewardArgs : WithMaxReward(a)
    \/ \E bs \in BountyLists : Take(bs)
    \/ ApplyHeld
    \/ \E d \in BOOLEAN : SortByReward(d)
    \/ \E d \in BOOLEAN : SortByCreated(d)
    \/ \E d \in BOOLEAN : SortByDeadline(d)
    \/ Forget

SortSpec == Init /\ [][SortNext]_vars

(***************************************************************************)
(* Properties.                                                             *)
(***************************************************************************)
\* the call is over and an HTTP response (not a transport failure) came back
Answered == pc = "done" /\ response.transport = "ok"

Other(s) == IF s = "sync" THEN "async" ELSE "sync"

\* the error kind section 4.3 of the specification assigns to a status code
StatusErrorKind(c) ==
    CASE c = 404 -> "NotFoundError"
      [] c = 400 -> "ValidationError"
      [] c = 401 -> "AuthenticationError"
      [] c = 429 -> "RateLimitError"
      [] c >= 500 -> "ServerError"
      [] OTHER -> "APIError"

\* C1: _request maps every non-success status to exactly one error kind
\* (404 NotFoundError, 400 ValidationError, 401 AuthenticationError,
\* 429 RateLimitError, >= 500 ServerError, otherwise generic APIError), the
\* error carrying the status code; on a success status the status mapping
\* raises nothing (the only failure left is the body decode failure).
C1_StatusMapsToOneErrorKind ==
    Answered =>
        IF is_success(response.status_code)
        THEN data.ok \/ data.err.cause = "JSONDecodeError"
        ELSE /\ ~data.ok
             /\ data.err.exc = StatusErrorKind(response.status_code)
             /\ data.err.status_code = response.status_code

\* C2: every call either returns a value or raises a subtype of OwockibotError.
C2_AllFailuresTyped ==
    pc = "done" => result.ok \/ IsSubclass(result.err.exc, "OwockibotError")

C4_RateLimitRetryAfter ==
    Answered /\ response.status_code = 429 =>
        /\ ~data.ok
        /\ data.err.exc = "RateLimitError"
        /\ IF response.retry_after = PyNone
           THEN data.err.retry_after = PyNone
           ELSE int(response.retry_after.v).ok
                    => data.err.retry_after = int(response.retry_after.v).v

\* C5: for a non-success status the typed error of that status is raised
\* whatever the body contains, and no domain object is built from the response.
C5_DispatchBeforeParsing ==
    Answered /\ ~is_success(response.status_code) =>
        /\ ~built
        /\ ~result.ok
        /\ result.err.exc = StatusErrorKind(response.status_code)

\* C6: on a success status _request returns {} for a 204 or an empty body,
\* the parsed JSON otherwise, and for a non-empty body that is not JSON raises
\* APIError with the response's status code and the decode error as cause.
C6_SuccessResponseHandling ==
    Answered /\ is_success(response.status_code) =>
        IF response.status_code = 204 \/ response.body.kind = "empty"
        THEN data = Ok(EmptyDict)
        ELSE IF response.body.kind = "json"
        THEN data = Ok(response.body.v)
        ELSE /\ ~data.ok
             /\ data.err.exc = "APIError"
             /\ data.err.status_code = response.status_code
             /\ data.err.cause = "JSONDecodeError"

\* C6 witness: a 200 response whose body is not JSON has been wrapped.
C6_Witness ==
    /\ Answered
    /\ response.status_code = 200
    /\ response.body.kind = "garbage"
    /\ ~data.ok
    /\ data.err.cause = "JSONDecodeError"

\* what a surface does with a call, from the request to the outcome
OutcomeOf(s, o, a, r) ==
    IF o \notin OpsOf(s)
    THEN [requests |-> <<>>, result |-> missing_attribute(o)]
    ELSE IF o = "create_bounty"
    THEN [requests |-> <<>>, result |-> Sync_create_bounty(a)]
    ELSE LET req == RequestOf(s, o, a)
         IN [requests |-> <<req>>, result |-> ResultOf(s, o, DataOf(s, req, r))]

\* C7: the two clients agree: for every operation, arguments and response the
\* other client issues the same requests and produces the same outcome.
C7_SurfacesAgree ==
    pc = "done" =>
        [requests |-> requests, result |-> result]
            = OutcomeOf(Other(surface), op, args, response)

\* a JSON object lacks one of the fields in required
Lacks(x, required) == x.t = "obj" /\ ~(required \subseteq DOMAIN x.v)

\* some element of the array under key lacks a required field
SomeElementLacks(x, key, required) ==
    /\ key \in DOMAIN x.v
    /\ x.v[key].t = "arr"
    /\ \E i \in 1..Len(x.v[key].v) : Lacks(x.v[key].v[i], required)

\* a Bounty object with a required field missing, in itself or in a nested
\* Submission, Payment, PendingPayment or Rejection
BountyLacksField(x) ==
    /\ x.t = "obj"
    /\ \/ Lacks(x, BountyRequired)
       \/ "payment" \in DOMAIN x.v /\ Lacks(x.v["payment"], PaymentRequired)
       \/ "pendingPayment" \in DOMAIN x.v
            /\ Lacks(x.v["pendingPayment"], PendingPaymentRequired)
       \/ SomeElementLacks(x, "submissions", SubmissionRequired)
       \/ SomeElementLacks(x, "rejections", RejectionRequired)
       \/ /\ "rejections" \in DOMAIN x.v
          /\ x.v["rejections"].t = "arr"
          /\ \E i \in 1..Len(x.v["rejections"].v) :
                /\ x.v["rejections"].v[i].t = "obj"
                /\ SomeElementLacks(x.v["rejections"].v[i], "previousSubmissions",
                                    SubmissionRequired)

\* the JSON returned for operation o has a required field missing
LacksField(o, x) ==
    CASE o = "list_bounties" ->
            x.t = "arr" /\ \E i \in 1..Len(x.v) : BountyLacksField(x.v[i])
      [] o = "get_stats" -> Lacks(x, StatsRequired)
      [] o = "get_x402_config" ->
            /\ x.t = "obj"
            /\ \/ Lacks(x, X402ConfigRequired)
               \/ SomeElementLacks(x, "accepts", TokenConfigRequired)
      [] OTHER -> BountyLacksField(x)

\* a success response whose body the operation has to parse
SuccessWithBody ==
    /\ Answered
    /\ is_success(response.status_code)
    /\ response.status_code # 204

\* C8: a success response whose body is invalid JSON, or in which a required
\* field of the object, of a list element or of a nested object is missing,
\* makes the whole operation fail: no object and no partial list is returned.
C8_MalformedNeverAccepted ==
    /\ SuccessWithBody
    /\ \/ response.body.kind = "garbage"
       \/ response.body.kind = "json" /\ LacksField(op, response.body.v)
    => ~result.ok

\* C9: parsing a JSON object from which a required field is absent fails
\* with a MissingFieldError.
C9_MissingFieldError ==
    /\ SuccessWithBody
    /\ response.body.kind = "json"
    /\ LacksField(op, response.body.v)
    => ~result.ok /\ result.err.exc = "MissingFieldError"

\* C10: create_bounty, on either client and for all arguments, fails with the
\* payment-signing error and issues no HTTP request.
C10_CreateBountyAlwaysFails ==
    pc = "done" /\ op = "create_bounty" =>
        /\ ~result.ok
        /\ result.err.exc = "NotImplementedError"
        /\ requests = <<>>

\* the call is over and the exchange failed in the transport
TransportFailed == pc = "done" /\ response.transport \in TransportFailures

\* C11 as stated: every client operation issues exactly one HTTP request and
\* then ends with a result or an error; a failed exchange is not retried and
\* leaves no partial result.
C11_ExactlyOneRequest ==
    /\ pc = "waiting" => Len(requests) = 1 /\ result = Pending
    /\ pc = "done" => Len(requests) = 1 /\ result # Pending
    /\ TransportFailed => ~result.ok /\ ~built

\* C11 amended: every client operation issues at most one HTTP request,
\* exactly one when it goes through _request and none for create_bounty, and
\* then ends with a result or an error; a failed exchange is not retried and
\* leaves no partial result.
C11_AtMostOneRequest ==
    /\ pc = "waiting" => Len(requests) = 1 /\ result = Pending
    /\ pc = "done" =>
            /\ Len(requests) = (IF op = "create_bounty" THEN 0 ELSE 1)
            /\ result # Pending
    /\ TransportFailed => ~result.ok /\ ~built

\* C11 witness: a call whose exchange timed out is over after its one request.
C11_Witness ==
    /\ pc = "done"
    /\ response.transport = "ReadTimeout"
    /\ Len(requests) = 1
    /\ ~result.ok

\* what call number i must come to, given its own arguments and response
OwnRequest(i) == client_request(client, calls[i].op, calls[i].args)
OwnOutcome(i) ==
    ResultOf(client.kind, calls[i].op,
             DataOf(client.kind, OwnRequest(i), calls[i].response))

\* call number i was sent to the transport and is over
Completed(i) == Finished(i) /\ calls[i].requests # <<>>

\* C12: the calls issued from one client instance are independent under
\* every interleaving of their request and response steps: a completed call
\* has sent the request of its own arguments and has the outcome of its own
\* response, a step of a call changes that call only, and no step of a call
\* writes the client.
C12_CallsIndependent ==
    /\ [](\A i \in 1..MaxCalls : Completed(i) =>
            /\ calls[i].requests = <<OwnRequest(i)>>
            /\ calls[i].result = OwnOutcome(i))
    /\ [][calls' # calls =>
            /\ client' = client
            /\ Cardinality({i \in 1..MaxCalls : calls'[i] # calls[i]}) = 1
            /\ \A i \in 1..MaxCalls : Finished(i) => calls'[i] = calls[i]]_vars

\* C12 witness: on the asynchronous client the second call was issued while
\* the first was waiting and has completed before it.
C12_Witness ==
    /\ client.state # "none"
    /\ client.kind = "async"
    /\ Waiting(1)
    /\ Completed(2)
    /\ calls[2].result.ok

\* C13: the transport is created once, at construction; once control has
\* left the with block the transport is closed, whether the block ended
\* normally or a call in it raised; and the transport is never closed by a
\* step of an operation, only by close and by leaving the block.
C13_ScopedRelease ==
    /\ [](client.state # "none" => client.transports = 1)
    /\ [](scope \in {"left", "left_raised"} => client.state = "closed")
    /\ [][client.state = "open" /\ client'.state = "closed" => calls' = calls]_vars

\* C13 witness: a call inside an async with block raised, control has left
\* the block with that exception, and the transport is closed.
C13_Witness ==
    /\ scope = "left_raised"
    /\ client.kind = "async"
    /\ client.state = "closed"
    /\ \E i \in 1..MaxCalls : Failed(i) /\ calls[i].requests # <<>>

\* C14: every request sent carries Accept: application/json, whatever
\* headers the caller gave at construction, and carries each of those headers.
C14_AcceptJsonOnEveryRequest ==
    \A i \in 1..MaxCalls :
        calls[i].pc # "idle" =>
            \A k \in 1..Len(calls[i].requests) :
                LET sent == calls[i].requests[k].headers.v
                IN /\ "Accept" \in DOMAIN sent
                   /\ sent["Accept"] = Str("application/json")
                   /\ \A h \in DOMAIN client.headers.v :
                        h \in DOMAIN sent /\ sent[h] = client.headers.v[h]

\* the decimal digits of an integer amount
IntDigits(x) == IF x.t = "int" THEN x.d ELSE Digits(x.v) \o Zeros(x.e)

\* the amount the accessor applied converts
Amount == fin.v[AmountKey[fop]]

\* x / 1,000,000 as an exact decimal
ExactUsdc(x) == Dec(1, IntDigits(x), 0 - 6)

\* the number of significant digits of x
SignificantDigits(x) == Len(Dec(1, IntDigits(x), 0).c)

C16_TimestampNormalizer ==
    fop = "_parse_timestamp" =>
        /\ \A z \in LocalZones : parse_timestamp_in(fin, z) = fout
        /\ is_number(fin) /\ fout.ok =>
                fout.v.ms = IF SciGT(number_of(fin), MillisThreshold)
                            THEN number_of(fin)
                            ELSE [v |-> number_of(fin).v, e |-> number_of(fin).e + 3]
        /\ fin = Str(IsoZ) =>
                fout = Ok([t |-> "datetime", ms |-> IsoInstant[IsoTokens[IsoZ][1]],
                           plus |-> 0, tz |-> "utc"])

\* C17: every timestamp field of every entity is accepted as epoch
\* milliseconds and as an ISO-8601 string, with or without a trailing Z, and
\* parses to a datetime in either case.
C17_BothEncodingsAccepted ==
    fop \in Entities =>
        \A k \in DOMAIN TimestampFields[fop] :
            k \in DOMAIN fin.v /\ fin.v[k] \in WireTimestamps =>
                /\ fout.ok
                /\ fout.v[TimestampFields[fop][k]].t = "datetime"

\* the deadline of the JSON object the constructor was applied to
DeadlineRaw == IF "deadline" \in DOMAIN fin.v THEN fin.v["deadline"] ELSE PyNone

\* C18: Bounty parsing turns a numeric deadline, 0 included, into the
\* instant that many milliseconds after the epoch, keeps a string deadline
\* as it is, and yields no deadline only when the field is absent or null.
C18_DeadlineForms ==
    fop = "Bounty" =>
        /\ fout.ok
        /\ CASE DeadlineRaw = PyNone -> fout.v.deadline = PyNone
              [] is_number(DeadlineRaw) ->
                    /\ fout.v.deadline.t = "datetime"
                    /\ fout.v.deadline.ms = number_of(DeadlineRaw)
              [] OTHER -> fout.v.deadline = DeadlineRaw

\* the float x is the fraction n * 10^e / d
SameFraction(x, n, e, d) == x.t = "float" /\ x.e = e /\ x.n * d = n * x.d

\* C19: completion_rate is 0 when total_bounties is 0 and otherwise
\* completed / total * 100; average_reward_usdc is 0 when completed_bounties
\* is 0 and otherwise total_rewards / completed; neither fails.
C19_StatsRates ==
    /\ fop = "Stats_completion_rate" =>
            /\ fout.ok
            /\ IF fin.v.totalBounties.v = 0
               THEN SameFraction(fout.v, 0, 0, 1)
               ELSE SameFraction(fout.v, fin.v.completedBounties.v * 100, 0,
                                 fin.v.totalBounties.v)
    /\ fop = "Stats_average_reward_usdc" =>
            /\ fout.ok
            /\ IF fin.v.completedBounties.v = 0
               THEN SameFraction(fout.v, 0, 0, 1)
               ELSE SameFraction(fout.v, fin.v.totalRewardsUSDC.v,
                                 fin.v.totalRewardsUSDC.e,
                                 fin.v.completedBounties.v)

\* C19 witness: with no completed bounty and rewards paid out the average
\* reward reads 0.
C19_Witness ==
    /\ fop = "Stats_average_reward_usdc"
    /\ fin.v.completedBounties.v = 0
    /\ fin.v.totalRewardsUSDC.v # 0
    /\ fout = Ok(Float(0, 0, 1))

\* a criterion of the filter is set: a status or tag list that is not empty,
\* a reward bound that is given (0 included), a creator, claimant or search
\* text that is not empty, a custom predicate that is given
IsSet(k) ==
    CASE k \in {"statuses", "tags"} -> Len(filter[k].v) > 0
      [] k \in {"min_reward", "max_reward", "custom_filter"} -> filter[k] # PyNone
      [] k \in {"creator", "claimed_by", "search_query"} ->
            filter[k] # PyNone /\ filter[k].v # <<>>

RECURSIVE Pow10(_)
Pow10(k) == IF k = 0 THEN 1 ELSE 10 * Pow10(k - 1)

RECURSIVE NatOf(_)
NatOf(ds) == IF ds = <<>> THEN 0 ELSE 10 * NatOf(SubSeq(ds, 1, Len(ds) - 1)) + ds[Len(ds)]

\* a reward bound in micro units
MicroOf(d) == NatOf(d.c) * Pow10(d.e + 6)

\* the tags of a sequence of tags, case folded
Folded(tags) == {str_lower(tags[i]) : i \in 1..Len(tags)}

\* the bounty b satisfies the criterion k of the filter
Satisfies(b, k) ==
    CASE k = "statuses" ->
            b.status \in {filter.statuses.v[i] : i \in 1..Len(filter.statuses.v)}
      [] k = "tags" -> Folded(filter.tags.v) \subseteq Folded(b.tags.v)
      [] k = "min_reward" -> b.reward.v >= MicroOf(filter.min_reward)
      [] k = "max_reward" -> b.reward.v <= MicroOf(filter.max_reward)
      [] k = "creator" -> str_lower(b.creator) = str_lower(filter.creator)
      [] k = "claimed_by" ->
            /\ b.claimed_by # PyNone
            /\ str_lower(b.claimed_by) = str_lower(filter.claimed_by)
      [] k = "search_query" ->
            \/ str_contains(str_lower(b.title), str_lower(filter.search_query))
            \/ str_contains(str_lower(b.description), str_lower(filter.search_query))

\* b satisfies every criterion that is set, the custom predicate aside
Passes(b) ==
    \A k \in Criteria \ {"custom_filter"} : IsSet(k) => Satisfies(b, k)

\* the bounties of the input the custom predicate is asked about
Survivors == SelectSeq(fin.v, Passes)

\* what the custom predicate says of b
Said(b) == call_custom_filter(filter.custom_filter, b)
Accepted(b) == Said(b).v.v

\* C20: apply returns exactly the bounties of the input that satisfy every
\* criterion that is set, in their input order; an unset criterion is a no-op
\* and a set one, a reward bound of 0 included, is enforced; the custom
\* predicate runs last, on the bounties that passed every other criterion.
C20_ApplyKeepsExactlyTheMatches ==
    fop = "apply" =>
        IF ~IsSet("custom_filter") THEN fout = Ok(Arr(Survivors))
        ELSE IF \E i \in 1..Len(Survivors) : ~Said(Survivors[i]).ok
        THEN ~fout.ok
        ELSE fout = Ok(Arr(SelectSeq(Survivors, Accepted)))

\* C20 witness: with a maximum reward of 0 a bounty that pays is dropped and
\* the one that pays nothing is kept.
C20_Witness ==
    /\ fop = "apply"
    /\ filter.max_reward = Dec(1, <<0>>, 0)
    /\ Len(fin.v) = 2
    /\ fin.v[1].reward.v > 0
    /\ fin.v[2].reward.v = 0
    /\ fout = Ok(Arr(<<fin.v[2]>>))

\* no criterion of the filter is set
NoCriterion == \A k \in Criteria : ~IsSet(k)

\* C21: filtering is idempotent, f.apply(f.apply(L)) = f.apply(L), and a
\* filter with no criterion set returns L unchanged and in its order.
C21_IdempotentAndIdentity ==
    /\ fop = "reapply" => fout = Ok(fin)
    /\ fop = "apply" /\ NoCriterion => fout = Ok(fin)

\* C21 witness: a filter with a criterion set, applied to its own non-empty
\* result, returns that result.
C21_Witness ==
    /\ fop = "reapply"
    /\ ~NoCriterion
    /\ Len(fin.v) > 0
    /\ fout = Ok(fin)

\* each required tag equals, letter case aside, some tag of b
HasEveryTag(b) ==
    \A i \in 1..Len(filter.tags.v) :
        \E j \in 1..Len(b.tags.v) :
            str_lower(filter.tags.v[i]) = str_lower(b.tags.v[j])

\* C22: the tag filter has AND semantics: a bounty passes exactly when each
\* required tag equals, ignoring letter case, some tag of the bounty, the
\* tags of successive with_tags calls being all required.
C22_TagsAllRequired ==
    fop = "apply" /\ fout.ok =>
        /\ \A i \in 1..Len(fout.v.v) : HasEveryTag(fout.v.v[i])
        /\ Assigned(filter) = {"tags"} => fout = Ok(Arr(SelectSeq(fin.v, HasEveryTag)))

\* C22 witness: a bounty tagged B and A fails the filter that requires b
\* and, from a second with_tags call, AB.
C22_Witness ==
    /\ fop = "apply"
    /\ filter.tags = Arr(<<Chars(<<"b">>), Chars(<<"A", "B">>)>>)
    /\ Assigned(filter) = {"tags"}
    /\ Len(fin.v) = 1
    /\ fin.v[1].tags = Arr(<<Chars(<<"B">>), Chars(<<"A">>)>>)
    /\ fout = Ok(Arr(<<>>))

\* b has, letter case aside, one of the tags of the any-tags test in effect
HasAnyTag(b) == filter.custom_filter.tag_set \cap Folded(b.tags.v) # {}

\* C23: the any-tags mode occupies the single custom-predicate slot: after
\* with_any_tags the slot holds the any-tags test whatever predicate was set
\* before, a predicate assigned afterwards replaces it, and apply runs the
\* one test that is in the slot and no other.
C23_OneCustomSlot ==
    /\ fop = "with_any_tags" =>
            filter.custom_filter = any_tag_filter(Folded(fin.tags))
    /\ fop = "set_custom_filter" => filter.custom_filter = fin.custom_filter
    /\ fop = "apply" /\ IsSet("custom_filter") =>
            IF filter.custom_filter.name = "any_tag_filter"
            THEN fout = Ok(Arr(SelectSeq(Survivors, HasAnyTag)))
            ELSE fout.ok => fout = Ok(Arr(SelectSeq(Survivors, Accepted)))

\* C23 witness: with_any_tags is called on a builder that holds the caller's
\* predicate and leaves the any-tags test in its place.
C23_Witness ==
    /\ fop = "with_any_tags"
    /\ fin.self.custom_filter = fee_paid
    /\ filter.custom_filter = any_tag_filter({Chars(<<"b">>)})

\* ys holds the elements of xs, each as many times
IsPermutation(xs, ys) ==
    /\ Len(xs) = Len(ys)
    /\ \A b \in SampleBounties :
        Cardinality({i \in 1..Len(xs) : xs[i] = b})
            = Cardinality({i \in 1..Len(ys) : ys[i] = b})

\* C24: sort_by_deadline returns a permutation of its input in which every
\* bounty without a deadline comes after every bounty whose deadline is an
\* instant, in the ascending and in the descending direction.
C24_NoDeadlineLast ==
    fop = "sort_by_deadline" =>
        /\ fout.ok
        /\ IsPermutation(fin.v, fout.v.v)
        /\ \A i, j \in 1..Len(fout.v.v) :
            /\ fout.v.v[i].deadline = PyNone
            /\ fout.v.v[j].deadline # PyNone
            /\ fout.v.v[j].deadline.t = "datetime"
            => j < i

\* a call was made on the list held and another is made on it
HeldStep == fop \in Holding /\ fop' \in Holding

\* C26: apply and the sort functions leave their arguments unchanged: over
\* any sequence of calls the list keeps its elements and their order and the
\* filter its criteria, so that apply gives what the filter and the list
\* determine.
C26_ArgumentsUnchanged ==
    /\ [][HeldStep => fin' = fin /\ filter' = filter]_vars
    /\ [](fop \in Holding => fin \in {Arr(bs) : bs \in BountyLists})
    /\ [](fop = "apply" => C20_ApplyKeepsExactlyTheMatches)

\* C26 witness: sort_by_reward returned the two bounties in the other order
\* and the list held is as it was.
C26_Witness ==
    /\ fop = "sort_by_reward"
    /\ Len(fin.v) = 2
    /\ fout = Ok(Arr(<<fin.v[2], fin.v[1]>>))
    /\ fin.v[1] # fin.v[2]

\* the builder after the step is the same object and differs from the one
\* before in the criteria ks at most
Only(ks) ==
    /\ filter'.id = filter.id
    /\ \A k \in Criteria \ ks : filter'[k] = filter[k]

\* C25: every builder method returns the builder it was called on and
\* changes its own criterion only: with_status and with_tags append their
\* arguments to what earlier calls gave, the other setters overwrite; so the
\* filters chained from one base are that base and hold the same criteria.
C25_BuildersReturnSelf ==
    [][ /\ \A ss \in StatusArgs : WithStatus(ss) =>
                Only({"statuses"}) /\ filter'.statuses.v = filter.statuses.v \o ss
        /\ \A ts \in TagArgs : WithTags(ts) =>
                Only({"tags"}) /\ filter'.tags.v = filter.tags.v \o ts
        /\ \A ts \in AnyTagArgs : WithAnyTags(ts) => Only({"custom_filter"})
        /\ \A a \in RewardArgs : WithMinReward(a) =>
                Only({"min_reward"}) /\ filter'.min_reward = a
        /\ \A a \in RewardArgs : WithMaxReward(a) =>
                Only({"max_reward"}) /\ filter'.max_reward = a
        /\ \A r \in RangeArgs : WithRewardRange(r[1], r[2]) =>
                /\ Only({"min_reward", "max_reward"})
                /\ filter'.min_reward = r[1]
                /\ filter'.max_reward = r[2]
        /\ \A c \in CreatorArgs : WithCreator(c) =>
                Only({"creator"}) /\ filter'.creator = str_lower(c)
        /\ \A c \in ClaimantArgs : WithClaimedBy(c) =>
                Only({"claimed_by"}) /\ filter'.claimed_by = str_lower(c)
        /\ \A q \in QueryArgs : Search(q) =>
                Only({"search_query"}) /\ filter'.search_query = str_lower(q)
      ]_vars

\* C25 witness: with_status was called twice on the builder, which holds
\* the statuses of both calls next to a reward bound set in between.
C25_Witness ==
    /\ fop = "none"
    /\ filter.id = 1
    /\ filter.statuses = Arr(<<Status("open"), Status("open")>>)
    /\ filter.max_reward = Dec(1, <<1, 5>>, 0 - 1)

\* the number of significant digits of an int or a Decimal
Significant(x) == IF x.t = "Decimal" THEN Len(x.c) ELSE Len(Decimal_of(x).v.c)

\* the number of fractional digits of a Decimal
FractionalDigits(x) == IF x.e < 0 THEN 0 - x.e ELSE 0

\* two ints are the same number
SameInt(a, b) == Decimal_of(a).v = Decimal_of(b).v

\* the magnitude of a Decimal
Abs(d) == [d EXCEPT !.s = 1]

\* the magnitude of the int m, and the next integer
IntAbs(m) == Abs(Decimal_of(m).v)
IntAbsPlusOne(m) == Dec(1, Increment(IntAbs(m).c \o Zeros(IntAbs(m).e)), 0)

\* the int m is x * 1,000,000 with the fraction dropped: of the sign of x and
\* the greatest magnitude not above that of the product
TruncatedMicro(x, m) ==
    /\ Decimal_le(IntAbs(m), Abs(Dec(x.s, x.c, x.e + 6)))
    /\ ~Decimal_le(IntAbsPlusOne(m), Abs(Dec(x.s, x.c, x.e + 6)))
    /\ IntAbs(m).c # <<0>> => Decimal_of(m).v.s = x.s

\* C27 as stated: the conversions are mutually inverse, for every integer n
\* and for every decimal of at most six fractional digits, and usdc_to_micro
\* truncates toward zero an amount of more than six fractional digits.
C27_ConversionsInverse ==
    /\ fop = "micro_round_trip" => fout.ok /\ SameInt(fout.v, fin)
    /\ fop = "usdc_round_trip" /\ FractionalDigits(fin) <= 6 => fout = Ok(fin)
    /\ fop = "usdc_to_micro" /\ FractionalDigits(fin) > 6 =>
            fout.ok /\ TruncatedMicro(fin, fout.v)

\* C27 amended: the same, for integers and decimals of at most 28
\* significant digits, the precision of the default decimal context.
C27_ConversionsInverseWithinPrecision ==
    fop \in Conversions /\ Significant(fin) <= DecimalPrec =>
        /\ fop = "micro_round_trip" => fout.ok /\ SameInt(fout.v, fin)
        /\ fop = "usdc_round_trip" /\ FractionalDigits(fin) <= 6 => fout = Ok(fin)
        /\ fop = "usdc_to_micro" /\ FractionalDigits(fin) > 6 =>
                fout.ok /\ TruncatedMicro(fin, fout.v)

\* C27 witness: -1.9999999 converts to -1999999, the seventh fractional digit
\* dropped.
C27_Witness ==
    /\ fop = "usdc_to_micro"
    /\ fin = Dec(0 - 1, <<1, 9, 9, 9, 9, 9, 9, 9>>, 0 - 7)
    /\ fout = Ok(Num(0 - 1999999))

\* the query parameter names of the criteria that have one
ParamOf ==
    [statuses |-> "status", tags |-> "tags", min_reward |-> "minReward",
     max_reward |-> "maxReward", creator |-> "creator", search_query |-> "q"]

\* the parameter of the reward bound k is the bound in integer micro-units
MicroParam(params, k) ==
    IsSet(k) /\ ParamOf[k] \in DOMAIN params =>
        SameInt(params[ParamOf[k]], Num(MicroOf(filter[k])))

\* C28: every criterion that apply enforces, the custom predicate apart, is
\* among the query parameters exactly when it is set on the builder, a reward
\* bound of 0 included, and the reward bounds are in integer micro-units.
C28_QueryParamsAgreeWithApply ==
    fop = "to_query_params" =>
        /\ fout.ok
        /\ \A k \in DOMAIN ParamOf : IsSet(k) <=> ParamOf[k] \in DOMAIN fout.v.v
        /\ IsSet("claimed_by") <=>
                \E key \in DOMAIN fout.v.v \ {ParamOf[k] : k \in DOMAIN ParamOf} :
                    fout.v.v[key] = filter.claimed_by
        /\ MicroParam(fout.v.v, "min_reward")
        /\ MicroParam(fout.v.v, "max_reward")

====
